---- MODULE Spec2Model ----
\* Model of statlas-content-service (Go, gorilla/mux + Firestore).
\* The newest main.go of the repository is src/unnamed/part_001, lines 939-3547;
\* line numbers below refer to that file unless another file is named.
\*
\* Coordinates are integers in hundredths of a degree (40.71 degrees = 4071), so
\* every comparison the code makes on float64 values is made here on integers.
\* A geometry point is <<x, y>> = <<lon, lat>>, as in GeoJSON and orb.Point.
EXTENDS Integers, Sequences, FiniteSets, TLC

VARIABLES serviceSecret, store, req, resp, invoked, reads, previousBulk, call

vars == <<serviceSecret, store, req, resp, invoked, reads, previousBulk, call>>

\* ---------------------------------------------------------------- bounds

\* Length of the configured non-empty secret; presented headers are up to one longer.
MaxSecretLen == 2

\* Longest request body, in points, besides the bodies around the batch cap.
MaxPoints == 2

\* How many store collections may be unavailable while one request is served.
MaxFailures == 1

\* ---------------------------------------------------------------- helpers

Range(s) == {s[i] : i \in 1..Len(s)}

RECURSIVE SeqsUpTo(_, _)
SeqsUpTo(S, n) ==
    IF n = 0 THEN {<<>>}
    ELSE LET shorter == SeqsUpTo(S, n - 1)
         IN  shorter \cup {Append(s, x) : s \in {t \in shorter : Len(t) = n - 1}, x \in S}

Deg(d) == d * 100

\* ---------------------------------------------------------------- transport & gate

Bytes == {1, 2}

\* crypto/subtle works on bytes: x ^ y of two 8-bit values, bit by bit.
RECURSIVE Xor8(_, _, _)
Xor8(x, y, bits) ==
    IF bits = 0 THEN 0
    ELSE (IF (x % 2) # (y % 2) THEN 1 ELSE 0) + 2 * Xor8(x \div 2, y \div 2, bits - 1)

RECURSIVE Or8(_, _, _)
Or8(x, y, bits) ==
    IF bits = 0 THEN 0
    ELSE (IF (x % 2) = 1 \/ (y % 2) = 1 THEN 1 ELSE 0) + 2 * Or8(x \div 2, y \div 2, bits - 1)

RECURSIVE XorFold(_, _, _, _)
XorFold(x, y, i, v) ==
    IF i > Len(x) THEN v
    ELSE XorFold(x, y, i + 1, Or8(v, Xor8(x[i], y[i], 8), 8))

\* A comparison that stops looking after the first byte of the two values.
ConstantTimeCompareFirstByteOnly(x, y) ==
    IF Len(x) = 0 \/ Len(y) = 0 THEN (IF Len(x) = Len(y) THEN 1 ELSE 0)
    ELSE IF x[1] = y[1] THEN 1 ELSE 0

\* subtle.ConstantTimeCompare: 0 when the lengths differ, else 1 iff the OR of the
\* byte-wise XORs is zero.
ConstantTimeCompare(x, y) ==
    IF Len(x) # Len(y) THEN 0
    ELSE IF XorFold(x, y, 1, 0) = 0 THEN 1 ELSE 0

\* The values SERVICE_SECRET may hold at startup: empty (auth disabled) or a secret.
Secrets == {<<>>, [i \in 1..MaxSecretLen |-> 1 + (i % 2)]}

\* r.Header.Get("X-Service-Auth"): "" when the header is absent.
Headers == SeqsUpTo(Bytes, MaxSecretLen + 1)

\* ---------------------------------------------------------------- router

\* main(), lines 1933-2007: the routes in registration order. A path is the
\* sequence of its segments; "*" is a mux variable such as {id}, which matches
\* any one segment.
Routes == <<
    [pattern |-> <<"health">>, methods |-> {"GET"}, handler |-> "healthHandler", gated |-> FALSE],   \* line 1933
    [pattern |-> <<"metrics">>, methods |-> {"GET"}, handler |-> "metricsHandler", gated |-> FALSE],   \* line 1936
    [pattern |-> <<"sovereign-states">>, methods |-> {"GET", "OPTIONS"}, handler |-> "getSovereignStatesHandler", gated |-> TRUE],   \* line 1939
    [pattern |-> <<"sovereign-states", "*">>, methods |-> {"GET", "OPTIONS"}, handler |-> "getSovereignStateHandler", gated |-> TRUE],   \* line 1940
    [pattern |-> <<"countries">>, methods |-> {"GET", "OPTIONS"}, handler |-> "getCountriesHandler", gated |-> TRUE],   \* line 1941
    [pattern |-> <<"countries", "bulk">>, methods |-> {"GET", "OPTIONS"}, handler |-> "getBulkCountriesHandler", gated |-> TRUE],   \* line 1942
    [pattern |-> <<"countries", "*">>, methods |-> {"GET", "OPTIONS"}, handler |-> "getCountryHandler", gated |-> TRUE],   \* line 1943
    [pattern |-> <<"map-units">>, methods |-> {"GET", "OPTIONS"}, handler |-> "getMapUnitsHandler", gated |-> TRUE],   \* line 1944
    [pattern |-> <<"map-units", "*">>, methods |-> {"GET", "OPTIONS"}, handler |-> "getMapUnitHandler", gated |-> TRUE],   \* line 1945
    [pattern |-> <<"map-subunits">>, methods |-> {"GET", "OPTIONS"}, handler |-> "getMapSubunitsHandler", gated |-> TRUE],   \* line 1946
    [pattern |-> <<"map-subunits", "*">>, methods |-> {"GET", "OPTIONS"}, handler |-> "getMapSubunitHandler", gated |-> TRUE],   \* line 1947
    [pattern |-> <<"sovereign-states", "*", "countries">>, methods |-> {"GET", "OPTIONS"}, handler |-> "getSovereignStateCountriesHandler", gated |-> TRUE],   \* line 1950
    [pattern |-> <<"countries", "*", "map-units">>, methods |-> {"GET", "OPTIONS"}, handler |-> "getCountryMapUnitsHandler", gated |-> TRUE],   \* line 1951
    [pattern |-> <<"map-units", "*", "subunits">>, methods |-> {"GET", "OPTIONS"}, handler |-> "getMapUnitSubunitsHandler", gated |-> TRUE],   \* line 1952
    [pattern |-> <<"countries", "*", "states">>, methods |-> {"GET", "OPTIONS"}, handler |-> "getCountryStatesHandler", gated |-> TRUE],   \* line 1955
    [pattern |-> <<"states", "*">>, methods |-> {"GET", "OPTIONS"}, handler |-> "getStateHandler", gated |-> TRUE],   \* line 1956
    [pattern |-> <<"states", "*", "cities">>, methods |-> {"GET", "OPTIONS"}, handler |-> "getStateCitiesHandler", gated |-> TRUE],   \* line 1957
    [pattern |-> <<"cities", "*">>, methods |-> {"GET", "OPTIONS"}, handler |-> "getCityHandler", gated |-> TRUE],   \* line 1958
    [pattern |-> <<"landmarks">>, methods |-> {"GET", "OPTIONS"}, handler |-> "getLandmarksHandler", gated |-> TRUE],   \* line 1961
    [pattern |-> <<"landmarks", "*">>, methods |-> {"GET", "OPTIONS"}, handler |-> "getLandmarkHandler", gated |-> TRUE],   \* line 1962
    [pattern |-> <<"landmarks", "nearby">>, methods |-> {"GET", "OPTIONS"}, handler |-> "getLandmarksNearbyHandler", gated |-> TRUE],   \* line 1963
    [pattern |-> <<"restaurants">>, methods |-> {"GET", "OPTIONS"}, handler |-> "getRestaurantsHandler", gated |-> TRUE],   \* line 1964
    [pattern |-> <<"restaurants", "michelin">>, methods |-> {"GET", "OPTIONS"}, handler |-> "getMichelinRestaurantsHandler", gated |-> TRUE],   \* line 1965
    [pattern |-> <<"admin", "level-1">>, methods |-> {"GET", "OPTIONS"}, handler |-> "getAdminLevel1Handler", gated |-> TRUE],   \* line 1968
    [pattern |-> <<"admin", "level-1", "*">>, methods |-> {"GET", "OPTIONS"}, handler |-> "getAdminLevel1ByIdHandler", gated |-> TRUE],   \* line 1969
    [pattern |-> <<"admin", "level-2">>, methods |-> {"GET", "OPTIONS"}, handler |-> "getAdminLevel2Handler", gated |-> TRUE],   \* line 1970
    [pattern |-> <<"admin", "level-2", "*">>, methods |-> {"GET", "OPTIONS"}, handler |-> "getAdminLevel2ByIdHandler", gated |-> TRUE],   \* line 1971
    [pattern |-> <<"admin", "level-3">>, methods |-> {"GET", "OPTIONS"}, handler |-> "getAdminLevel3Handler", gated |-> TRUE],   \* line 1972
    [pattern |-> <<"admin", "level-3", "*">>, methods |-> {"GET", "OPTIONS"}, handler |-> "getAdminLevel3ByIdHandler", gated |-> TRUE],   \* line 1973
    [pattern |-> <<"admin", "level-4">>, methods |-> {"GET", "OPTIONS"}, handler |-> "getAdminLevel4Handler", gated |-> TRUE],   \* line 1974
    [pattern |-> <<"admin", "level-4", "*">>, methods |-> {"GET", "OPTIONS"}, handler |-> "getAdminLevel4ByIdHandler", gated |-> TRUE],   \* line 1975
    [pattern |-> <<"admin", "level-5">>, methods |-> {"GET", "OPTIONS"}, handler |-> "getAdminLevel5Handler", gated |-> TRUE],   \* line 1976
    [pattern |-> <<"admin", "level-5", "*">>, methods |-> {"GET", "OPTIONS"}, handler |-> "getAdminLevel5ByIdHandler", gated |-> TRUE],   \* line 1977
    [pattern |-> <<"location", "lookup">>, methods |-> {"GET", "OPTIONS"}, handler |-> "getLocationLookupHandler", gated |-> TRUE],   \* line 1980
    [pattern |-> <<"boundaries">>, methods |-> {"GET", "OPTIONS"}, handler |-> "getBoundariesHandler", gated |-> TRUE],   \* line 1983
    [pattern |-> <<"boundaries", "containing">>, methods |-> {"GET", "OPTIONS"}, handler |-> "getBoundariesContainingHandler", gated |-> TRUE],   \* line 1984
    [pattern |-> <<"boundaries", "*">>, methods |-> {"GET", "OPTIONS"}, handler |-> "getBoundaryHandler", gated |-> TRUE],   \* line 1985
    [pattern |-> <<"boundaries", "batch-lookup">>, methods |-> {"POST", "OPTIONS"}, handler |-> "batchLookupBoundariesHandler", gated |-> TRUE],   \* line 1988
    [pattern |-> <<"achievements", "definitions">>, methods |-> {"GET", "OPTIONS"}, handler |-> "getAchievementDefinitionsHandler", gated |-> TRUE],   \* line 1989
    [pattern |-> <<"search">>, methods |-> {"GET", "OPTIONS"}, handler |-> "searchContentHandler", gated |-> TRUE],   \* line 1992
    [pattern |-> <<"polygons", "country", "*">>, methods |-> {"GET", "OPTIONS"}, handler |-> "getCountryPolygonHandler", gated |-> TRUE],   \* line 1995
    [pattern |-> <<"polygons", "continent", "*">>, methods |-> {"GET", "OPTIONS"}, handler |-> "getContinentPolygonsHandler", gated |-> TRUE],   \* line 1996
    [pattern |-> <<"polygons", "world">>, methods |-> {"GET", "OPTIONS"}, handler |-> "getWorldPolygonsHandler", gated |-> TRUE],   \* line 1997
    [pattern |-> <<"coastline", "classify">>, methods |-> {"GET", "OPTIONS"}, handler |-> "classifyPointHandler", gated |-> TRUE],   \* line 2000
    [pattern |-> <<"coastline", "distance">>, methods |-> {"GET", "OPTIONS"}, handler |-> "distanceToCoastHandler", gated |-> TRUE],   \* line 2001
    [pattern |-> <<"coastline", "batch-classify">>, methods |-> {"POST", "OPTIONS"}, handler |-> "batchClassifyHandler", gated |-> TRUE],   \* line 2002
    [pattern |-> <<"countries">>, methods |-> {"POST", "OPTIONS"}, handler |-> "createCountryHandler", gated |-> TRUE],   \* line 2005
    [pattern |-> <<"landmarks">>, methods |-> {"POST", "OPTIONS"}, handler |-> "createLandmarkHandler", gated |-> TRUE],   \* line 2006
    [pattern |-> <<"boundaries">>, methods |-> {"POST", "OPTIONS"}, handler |-> "createBoundaryHandler", gated |-> TRUE]   \* line 2007
>>

\* No route matched: one past the last route of the table.
NoRoute == Len(Routes) + 1

PatternMatches(pattern, path) ==
    /\ Len(pattern) = Len(path)
    /\ \A i \in 1..Len(pattern) : pattern[i] = "*" \/ pattern[i] = path[i]

\* mux Route.Match: the path and the method must both match.
RouteMatches(rt, method, path) ==
    PatternMatches(rt.pattern, path) /\ method \in rt.methods

\* A router that prefers the route registered last.
RouteIndexLastMatch(method, path) ==
    LET hits == {i \in 1..Len(Routes) : RouteMatches(Routes[i], method, path)}
    IN  IF hits = {} THEN NoRoute ELSE CHOOSE i \in hits : \A j \in hits : j <= i

\* mux Router.Match: the first registered route that matches wins.
RouteIndex(method, path) ==
    LET hits == {i \in 1..Len(Routes) : RouteMatches(Routes[i], method, path)}
    IN  IF hits = {} THEN NoRoute ELSE CHOOSE i \in hits : \A j \in hits : i <= j

\* mux ErrMethodMismatch: some route has the path, none has path and method.
MethodMismatch(method, path) ==
    /\ RouteIndex(method, path) = NoRoute
    /\ \E i \in 1..Len(Routes) : PatternMatches(Routes[i].pattern, path)

\* ---------------------------------------------------------------- geometry kernel

Miss == [inter |-> FALSE, on |-> FALSE]
Hit == [inter |-> TRUE, on |-> FALSE]
On == [inter |-> FALSE, on |-> TRUE]

\* orb/planar rayIntersect(p, s, e), the test behind planar.PolygonContains
\* (called at line 1368). A point whose x equals an end point's x is nudged to
\* the next float above (math.Nextafter), written out here case by case; slopes
\* are compared by cross-multiplication, both denominators being positive.
RayIntersect(p, a, b) ==
    LET s == IF a[1] > b[1] THEN b ELSE a
        e == IF a[1] > b[1] THEN a ELSE b
        lhs == (p[2] - s[2]) * (e[1] - s[1])
        rhs == (e[2] - s[2]) * (p[1] - s[1])
        slope == IF p[1] = s[1]
                 THEN (IF p[2] < s[2] THEN Hit ELSE Miss)
                 ELSE IF lhs = rhs THEN On
                 ELSE IF lhs <= rhs THEN Hit ELSE Miss
        yrange == IF s[2] > e[2]
                  THEN (IF p[2] > s[2] THEN Miss ELSE IF p[2] < e[2] THEN Hit ELSE slope)
                  ELSE (IF p[2] > e[2] THEN Miss ELSE IF p[2] < s[2] THEN Hit ELSE slope)
    IN  IF p[1] = s[1]
        THEN IF p[2] = s[2] THEN On
             ELSE IF s[1] = e[1]
             THEN (IF \/ (s[2] > e[2] /\ s[2] >= p[2] /\ p[2] >= e[2])
                      \/ (e[2] > s[2] /\ e[2] >= p[2] /\ p[2] >= s[2])
                   THEN On ELSE Miss)
             ELSE yrange
        ELSE IF p[1] = e[1]
        THEN (IF p[2] = e[2] THEN On ELSE Miss)
        ELSE IF p[1] < s[1] \/ p[1] > e[1] THEN Miss
        ELSE yrange

\* orb Ring.Bound().Contains(point): the ring's own bounding rectangle, closed.
RingBoundContains(r, p) ==
    /\ \E i \in 1..Len(r) : r[i][1] <= p[1]
    /\ \E i \in 1..Len(r) : r[i][1] >= p[1]
    /\ \E i \in 1..Len(r) : r[i][2] <= p[2]
    /\ \E i \in 1..Len(r) : r[i][2] >= p[2]

RECURSIVE RingScan(_, _, _, _)
RingScan(r, p, i, c) ==
    IF i > Len(r) - 1 THEN c
    ELSE LET ri == RayIntersect(p, r[i], r[i + 1])
         IN  IF ri.on THEN TRUE
             ELSE RingScan(r, p, i + 1, IF ri.inter THEN ~c ELSE c)

\* orb/planar RingContains: a point on the ring counts as inside.
RingContains(r, p) ==
    IF ~RingBoundContains(r, p) THEN FALSE
    ELSE LET first == RayIntersect(p, r[1], r[Len(r)])
         IN  IF first.on THEN TRUE ELSE RingScan(r, p, 1, first.inter)

\* orb/planar PolygonContains: inside the outer ring and in (or on) no hole.
PolygonContains(poly, p) ==
    /\ RingContains(poly[1], p)
    /\ \A i \in 2..Len(poly) : ~RingContains(poly[i], p)

\* A geometry text is modelled by what geojson.UnmarshalGeometry makes of it:
\* type "" is the empty string, "garbage" a text that does not parse, and any
\* other type a geometry of that GeoJSON type with its polygons (if it has any).
NoGeometry == [type |-> "", polys |-> <<>>]

\* A containment test that trusts the first member polygon only.
isPointInGeometryFirstPolygonOnly(lat, lon, geometryJSON) ==
    /\ geometryJSON.type \in {"Polygon", "MultiPolygon"}
    /\ Len(geometryJSON.polys) > 0
    /\ PolygonContains(geometryJSON.polys[1], <<lon, lat>>)

\* isPointInGeometry, lines 1350-1380.
isPointInGeometry(lat, lon, geometryJSON) ==
    IF geometryJSON.type = "" THEN FALSE
    ELSE IF geometryJSON.type = "garbage" THEN FALSE
    ELSE IF geometryJSON.type = "Polygon"
    THEN PolygonContains(geometryJSON.polys[1], <<lon, lat>>)
    ELSE IF geometryJSON.type = "MultiPolygon"
    THEN \E k \in 1..Len(geometryJSON.polys) :
            PolygonContains(geometryJSON.polys[k], <<lon, lat>>)
    ELSE FALSE

\* ---------------------------------------------------------------- store fixture

Collections ==
    {"sovereign_states", "countries", "map_units", "map_subunits",
     "landmarks", "restaurants", "coastlines", "land_polygons"}

\* getBoundariesContainingHandler, lines 2775-2804: the tiers in the order queried,
\* each with the type its group carries.
Tiers == <<
    [collection |-> "sovereign_states", type |-> "sovereign_state"],
    [collection |-> "countries", type |-> "country"],
    [collection |-> "map_units", type |-> "map_unit"],
    [collection |-> "map_subunits", type |-> "map_subunit"]
>>

Rect(minx, miny, maxx, maxy) ==
    <<<<minx, miny>>, <<maxx, miny>>, <<maxx, maxy>>, <<minx, maxy>>, <<minx, miny>>>>

Box(minLat, maxLat, minLon, maxLon) ==
    [min_lat |-> minLat, max_lat |-> maxLat, min_lon |-> minLon, max_lon |-> maxLon]

\* A document of a boundary collection (SovereignState, Country, MapUnit, lines
\* 962-1045): a new one belongs to no sovereign state and names no continent.
Entity(id, name, active, bounds, geometry) ==
    [id |-> id, name |-> name, is_active |-> active, bounds |-> bounds, geometry |-> geometry,
     sovereign_state_id |-> "", continent |-> ""]

\* The document with its sovereign_state_id and continent fields set.
Under(e, sovereignStateID, continent) ==
    [e EXCEPT !.sovereign_state_id = sovereignStateID, !.continent = continent]

\* A rectangle; its bounds are the rectangle itself.
Usa ==
    Under(Entity("usa", "United States", TRUE, Box(Deg(25), Deg(49), Deg(-125), Deg(-66)),
           [type |-> "Polygon", polys |-> <<<<Rect(Deg(-125), Deg(25), Deg(-66), Deg(49))>>>>]),
          "usa", "North America")

\* A second rectangle over the east of the first: two matches in one tier.
NewYork ==
    Under(Entity("new_york", "New York", TRUE, Box(4040, 4500, -7980, -7180),
           [type |-> "Polygon", polys |-> <<<<Rect(-7980, 4040, -7180, 4500)>>>>]),
          "usa", "North America")

\* A triangle: most of its bounds lie outside the geometry.
France ==
    Under(Entity("france", "France", TRUE, Box(Deg(42), Deg(51), Deg(-5), Deg(8)),
           [type |-> "Polygon",
            polys |-> <<<< <<<<Deg(-5), Deg(42)>>, <<Deg(8), Deg(42)>>, <<Deg(2), Deg(51)>>,
                             <<Deg(-5), Deg(42)>>>> >>>>]),
          "", "Europe")

\* A square with a square hole around the origin.
Atoll ==
    Entity("atoll", "Atoll", TRUE, Box(Deg(-10), Deg(10), Deg(-10), Deg(10)),
           [type |-> "Polygon",
            polys |-> <<<<Rect(Deg(-10), Deg(-10), Deg(10), Deg(10)),
                          Rect(Deg(-1), Deg(-1), Deg(1), Deg(1))>>>>])

\* Two squares at opposite corners of the world; each has a corner of the valid
\* coordinate range as a vertex, and the bounds span the world.
Farlands ==
    Entity("farlands", "Farlands", TRUE, Box(Deg(-90), Deg(90), Deg(-180), Deg(180)),
           [type |-> "MultiPolygon",
            polys |-> <<<<Rect(Deg(-180), Deg(-90), Deg(-170), Deg(-80))>>,
                        <<Rect(Deg(170), Deg(80), Deg(180), Deg(90))>>>>])

\* Soft-deleted: is_active=false, geometry around Paris.
OldGaul ==
    Under(Entity("old_gaul", "Gaul", FALSE, Box(Deg(40), Deg(52), Deg(-6), Deg(9)),
           [type |-> "Polygon", polys |-> <<<<Rect(Deg(-6), Deg(40), Deg(9), Deg(52))>>>>]),
          "", "Europe")

\* Listable rows that take no part in point-in-polygon queries.
NoGeo ==
    Under(Entity("no_geo", "Blank", TRUE, Box(Deg(40), Deg(52), Deg(-6), Deg(9)), NoGeometry),
          "old_gaul", "Europe")

Corrupt ==
    Entity("corrupt", "Corrupt", TRUE, Box(Deg(40), Deg(52), Deg(-6), Deg(9)),
           [type |-> "garbage", polys |-> <<>>])

River ==
    Entity("river", "River", TRUE, Box(Deg(40), Deg(52), Deg(-6), Deg(9)),
           [type |-> "LineString", polys |-> <<>>])

\* Breaks the ingest invariant: the bounds leave out the north of the geometry.
Shrunk ==
    Entity("shrunk", "Shrunk", TRUE, Box(Deg(35), Deg(40), Deg(-80), Deg(-70)),
           [type |-> "Polygon", polys |-> <<<<Rect(Deg(-80), Deg(35), Deg(-70), Deg(45))>>>>])

\* Coastline segments: only their bounds are read (lines 1831-1857).
CoastEast ==
    Entity("coast_east", "East coast", TRUE, Box(4000, 4100, -7450, -7350), NoGeometry)

CoastFar ==
    Entity("coast_far", "Far coast", TRUE, Box(Deg(28), Deg(30), Deg(-41), Deg(-39)), NoGeometry)

\* One segment whose bounds span the world: a candidate for every point.
CoastWorld ==
    Entity("coast_world", "World coast", TRUE, Box(Deg(-90), Deg(90), Deg(-180), Deg(180)),
           NoGeometry)

CoastOld ==
    Entity("coast_old", "Old coast", FALSE, Box(Deg(-1), Deg(1), Deg(-1), Deg(1)), NoGeometry)

Landmark(id, active, lat, lon, achievement) ==
    [id |-> id, is_active |-> active, lat |-> lat, lon |-> lon, achievement |-> achievement]

Liberty == Landmark("statue_of_liberty", TRUE, 4069, -7404, "ach_liberty")
Eiffel == Landmark("eiffel_tower", TRUE, 4886, 229, "ach_eiffel")
Closed == Landmark("closed_pier", FALSE, 4070, -7400, "ach_pier")
Bistro == Landmark("bistro", TRUE, 4886, 235, "ach_bistro")

EmptyStore == [c \in Collections |-> <<>>]

\* The store contents the service may be started against. Documents are listed
\* in id order, the order Firestore returns them in.
Worlds == {
    EmptyStore,
    [EmptyStore EXCEPT
        !["sovereign_states"] = <<France, Usa>>,
        !["countries"] = <<France, NewYork, OldGaul, Usa>>,
        !["map_units"] = <<Atoll, Farlands>>,
        !["map_subunits"] = <<Corrupt, NoGeo, River>>,
        !["landmarks"] = <<Closed, Eiffel, Liberty>>,
        !["restaurants"] = <<Bistro>>,
        !["coastlines"] = <<CoastEast, CoastFar, CoastOld>>,
        !["land_polygons"] = <<France, Usa>>],
    [EmptyStore EXCEPT
        !["sovereign_states"] = <<Atoll, Farlands, Usa>>,
        !["countries"] = <<Corrupt, France, NoGeo>>,
        !["map_units"] = <<NewYork, River, Usa>>,
        !["map_subunits"] = <<France, OldGaul>>,
        !["landmarks"] = <<Eiffel>>,
        !["coastlines"] = <<CoastFar, CoastWorld>>,
        !["land_polygons"] = <<Atoll>>],
    [EmptyStore EXCEPT
        !["sovereign_states"] = <<OldGaul, Shrunk>>,
        !["countries"] = <<NoGeo, Shrunk, Usa>>,
        !["map_subunits"] = <<Farlands>>,
        !["restaurants"] = <<Bistro>>,
        !["coastlines"] = <<CoastEast, CoastOld>>]
}

\* ---------------------------------------------------------------- request inputs

Methods == {"GET", "POST", "OPTIONS"}

\* A query parameter: absent, present but no number, or a number.
Missing == [kind |-> "missing", val |-> 0]
Garbage == [kind |-> "garbage", val |-> 0]
Num(v) == [kind |-> "num", val |-> v]

\* <<lat, lon>>: inside and outside the fixture's polygons, the two corners of
\* the valid range, and one point just beyond each of its four edges.
Points == {
    <<4071, -7401>>, <<4886, 235>>, <<4886, -400>>, <<0, 0>>, <<500, 500>>,
    <<3000, -4000>>, <<Deg(90), Deg(180)>>, <<Deg(-90), Deg(-180)>>,
    <<Deg(90) + 1, 0>>, <<Deg(-90) - 1, 0>>, <<0, Deg(180) + 1>>, <<0, Deg(-180) - 1>>
}

Queries ==
    {[lat |-> Num(p[1]), lon |-> Num(p[2])] : p \in Points}
    \cup {[lat |-> Missing, lon |-> Num(0)], [lat |-> Garbage, lon |-> Num(0)],
          [lat |-> Num(0), lon |-> Missing], [lat |-> Num(0), lon |-> Garbage]}

NoQuery == [lat |-> Missing, lon |-> Missing]

\* PointLookup, lines 1314-1318 (the batch-classify body reads lat and lon only).
PointLookup(lat, lon, squareID) == [lat |-> lat, lon |-> lon, square_id |-> squareID]

BodyPoints == {
    PointLookup(4071, -7401, "sq_a"), PointLookup(4886, 235, "sq_b"),
    PointLookup(3000, -4000, "sq_a"), PointLookup(Deg(90) + 1, 0, "sq_c")
}

\* batchClassifyHandler, line 1694: the cap on the points of one body.
MaxBatch == 1000

\* A body is unparsable, or a points list: every list of up to MaxPoints points,
\* and lists of exactly MaxBatch and MaxBatch + 1 points.
NoBody == [valid |-> FALSE, points |-> <<>>]

Bodies ==
    {NoBody}
    \cup {[valid |-> TRUE, points |-> s] : s \in SeqsUpTo(BodyPoints, MaxPoints)}
    \cup {[valid |-> TRUE,
           points |-> [i \in 1..n |-> IF i = n THEN PointLookup(3000, -4000, "sq_a")
                                               ELSE PointLookup(4071, -7401, "sq_b")]]
          : n \in {MaxBatch, MaxBatch + 1}}

CoordPaths == {<<"boundaries", "containing">>, <<"coastline", "classify">>,
               <<"coastline", "distance">>}

BatchPaths == {<<"boundaries", "batch-lookup">>, <<"coastline", "batch-classify">>}

PlainPaths == {<<"health">>, <<"metrics">>, <<"achievements", "definitions">>,
               <<"countries", "usa">>, <<"countries", "atlantis">>, <<"nope">>}

\* The catalogue endpoints that take no coordinates.
CatalogPaths == {
    <<"countries", "bulk">>, <<"polygons", "world">>,
    <<"polygons", "country", "usa">>, <<"polygons", "country", "old_gaul">>,
    <<"polygons", "country", "no_geo">>, <<"polygons", "country", "corrupt">>,
    <<"polygons", "country", "atlantis">>,
    <<"polygons", "continent", "Europe">>, <<"polygons", "continent", "North America">>,
    <<"polygons", "continent", "Atlantis">>
}

\* The landmark endpoints: the nearby search, and the detail of an id the store
\* may or may not hold.
\* The admin endpoints, lines 2005-2007.
AdminPaths == {<<"countries">>, <<"landmarks">>, <<"boundaries">>}

NearbyPath == <<"landmarks", "nearby">>
LandmarkPaths == {<<"landmarks", "statue_of_liberty">>, <<"landmarks", "atlantis">>}

\* The parameters of a nearby search: at a landmark, a few kilometres from one,
\* and far from all; radius and limit absent, unparsable or given.
NearbyQueries ==
    {[lat |-> Num(p[1]), lon |-> Num(p[2]), radius |-> rad, limit |-> lim] :
        p \in {<<4069, -7404>>, <<4071, -7401>>, <<4886, 235>>, <<0, 0>>},
        rad \in {Missing, Garbage, Num(0), Num(5000)},
        lim \in {Missing, Num(1)}}
    \cup {[lat |-> Garbage, lon |-> Num(0), radius |-> Num(0), limit |-> Missing],
          [lat |-> Num(0), lon |-> Missing, radius |-> Num(0), limit |-> Missing]}

Request(method, path, auth, query, body) ==
    [method |-> method, path |-> path, auth |-> auth, query |-> query, body |-> body]

\* The configured secret, and the same with its last byte changed.
TheSecret == [i \in 1..MaxSecretLen |-> 1 + (i % 2)]
LastByteOff == [TheSecret EXCEPT ![MaxSecretLen] = 3 - @]

CoreHeaders == {<<>>, TheSecret, LastByteOff}

DefaultQuery == [lat |-> Num(4071), lon |-> Num(-7401)]
DefaultBody == [valid |-> TRUE, points |-> <<PointLookup(4071, -7401, "sq_a")>>]

\* Every header with one input per path, and every input with three headers:
\* none, the secret, and the secret with its last byte changed.
Requests ==
    {Request(m, p, a, DefaultQuery, NoBody) : m \in Methods, p \in CoordPaths, a \in Headers}
    \cup {Request(m, p, a, NoQuery, DefaultBody) : m \in Methods, p \in BatchPaths, a \in Headers}
    \cup {Request(m, p, a, NoQuery, NoBody) : m \in Methods, p \in PlainPaths, a \in Headers}
    \cup {Request(m, p, a, NoQuery, NoBody) : m \in Methods, p \in CatalogPaths, a \in CoreHeaders}
    \cup {Request(m, p, a, NoQuery, NoBody) : m \in Methods, p \in LandmarkPaths, a \in CoreHeaders}
    \cup {Request(m, NearbyPath, a, q, NoBody) : m \in Methods, a \in CoreHeaders, q \in NearbyQueries}
    \cup {Request(m, p, a, NoQuery, b) : m \in {"POST", "OPTIONS"}, p \in AdminPaths,
                                         a \in CoreHeaders, b \in {NoBody, DefaultBody}}
    \cup {Request(m, p, a, q, NoBody) : m \in Methods, p \in CoordPaths, a \in CoreHeaders, q \in Queries}
    \cup {Request(m, p, a, NoQuery, b) : m \in Methods, p \in BatchPaths, a \in CoreHeaders, b \in Bodies}

\* The collections that are unavailable while one request is served, among those
\* the handler reads.
Outages(colls) == {down \in SUBSET colls : Cardinality(down) <= MaxFailures}

ReadOf(collection, down) == [collection |-> collection, ok |-> collection \notin down]

\* ---------------------------------------------------------------- responses

NoRequest == Request("", <<>>, <<>>, NoQuery, NoBody)
NoResponse == [status |-> 0, cors |-> FALSE, ctype |-> "", body |-> [kind |-> "none"]]

\* http.Error(w, msg, code).
HttpError(msg, code) ==
    [status |-> code, cors |-> TRUE, ctype |-> "text/plain", body |-> [kind |-> "error", text |-> msg]]

\* w.Header().Set("Content-Type", "application/json"); json.NewEncoder(w).Encode(v).
Json(body) == [status |-> 200, cors |-> TRUE, ctype |-> "application/json", body |-> body]

\* The route the router dispatches each method and path of the inputs to, as a
\* table (merging with the empty function leaves it as it is).
Dispatch ==
    [mp \in Methods \X (CoordPaths \cup BatchPaths \cup PlainPaths \cup CatalogPaths
                           \cup LandmarkPaths \cup {NearbyPath} \cup AdminPaths) |-> RouteIndex(mp[1], mp[2])]
    @@ <<>>

RouteOf(r) == Dispatch[<<r.method, r.path>>]

\* corsMiddleware, lines 2029-2034: a preflight ends here, anything else goes on.
corsMiddleware(r) == IF r.method = "OPTIONS" THEN "preflight" ELSE "next"

\* An auth wrapper that lets a request without the header through.
requireServiceAuthMissingHeaderPasses(r) ==
    IF r.method = "OPTIONS" THEN "preflight"
    ELSE IF serviceSecret = <<>> THEN "next"
    ELSE IF r.auth = <<>> THEN "next"
    ELSE IF ConstantTimeCompare(r.auth, serviceSecret) # 1 THEN "invalid"
    ELSE "next"

\* requireServiceAuth, lines 2056-2085: what the wrapper does with a request.
requireServiceAuth(r) ==
    IF r.method = "OPTIONS" THEN "preflight"
    ELSE IF serviceSecret = <<>> THEN "next"
    ELSE IF r.auth = <<>> THEN "missing"
    ELSE IF ConstantTimeCompare(r.auth, serviceSecret) # 1 THEN "invalid"
    ELSE "next"

\* A chain whose auth wrapper runs before the preflight answer and has no
\* exemption for OPTIONS.
ChainAuthBeforePreflight(r) ==
    LET i == RouteOf(r)
    IN  IF i = NoRoute THEN (IF MethodMismatch(r.method, r.path) THEN "405" ELSE "404")
        ELSE IF Routes[i].gated /\ serviceSecret # <<>> /\ r.auth = <<>> THEN "missing"
        ELSE IF Routes[i].gated /\ serviceSecret # <<>> /\ r.auth # serviceSecret THEN "invalid"
        ELSE corsMiddleware(r)

\* A chain that wraps every route in requireServiceAuth.
ChainEveryRouteGated(r) ==
    LET i == RouteOf(r)
    IN  IF i = NoRoute THEN (IF MethodMismatch(r.method, r.path) THEN "405" ELSE "404")
        ELSE IF corsMiddleware(r) = "preflight" THEN "preflight"
        ELSE requireServiceAuth(r)

\* The chain a request runs through, lines 1924-2007: the router's match, then
\* corsMiddleware (router.Use, line 1927), then the matched route's
\* requireServiceAuth wrapper if it has one. "next" is a call of the handler.
Chain(r) ==
    LET i == RouteOf(r)
    IN  IF i = NoRoute THEN (IF MethodMismatch(r.method, r.path) THEN "405" ELSE "404")
        ELSE IF corsMiddleware(r) = "preflight" THEN "preflight"
        ELSE IF Routes[i].gated THEN requireServiceAuth(r)
        ELSE "next"

\* The request reaches handler h.
\* A chain in which the handler runs before the secret is checked.
ReachesBeforeAuth(r, h) ==
    /\ Chain(r) \in {"next", "missing", "invalid"}
    /\ Routes[RouteOf(r)].handler = h

Reaches(r, h) ==
    /\ Chain(r) = "next"
    /\ Routes[RouteOf(r)].handler = h

\* The handler call that is followed step by step: where it is, whether the
\* request's context (r.Context()) has been cancelled, the store query that has
\* not returned yet, the tier it is at and the groups it has collected.
NoCall == [pc |-> "idle", cancelled |-> FALSE, inflight |-> {}, tier |-> 0, boundaries |-> <<>>]

\* One request is followed at a time: it is taken when none is being served
\* (Idle), and served in one step.
Idle == req = NoRequest

\* What serving a request leaves in the store. No handler calls Set, Add, Update
\* or Delete on the client; the admin handlers, lines 2972-2982, answer 501 and
\* return. The variant leaves the collection holding the posted document.
WrittenByAdmin(h, r) ==
    IF h = "createCountryHandler" THEN [store EXCEPT !["countries"] = <<Farlands>>]
    ELSE IF h = "createLandmarkHandler" THEN [store EXCEPT !["landmarks"] = <<Closed>>]
    ELSE IF h = "createBoundaryHandler" THEN [store EXCEPT !["map_units"] = <<Farlands>>]
    ELSE store

Written(h, r) == store

Serve(r, h, response, rds) ==
    /\ req' = r
    /\ resp' = response
    /\ invoked' = h
    /\ reads' = rds
    /\ store' = Written(h, r)
    /\ UNCHANGED <<serviceSecret, previousBulk, call>>

\* ---------------------------------------------------------------- transport actions

\* mux Router.ServeHTTP: no route has the path; the middlewares do not run.
NotFound ==
    /\ Idle
    /\ \E r \in Requests :
        /\ Chain(r) = "404"
        /\ Serve(r, "none", [HttpError("404 page not found", 404) EXCEPT !.cors = FALSE], <<>>)

\* mux Router.ServeHTTP: a route has the path, none the method; the middlewares
\* do not run.
MethodNotAllowed ==
    /\ Idle
    /\ \E r \in Requests :
        /\ Chain(r) = "405"
        /\ Serve(r, "none", [status |-> 405, cors |-> FALSE, ctype |-> "", body |-> [kind |-> "none"]], <<>>)

\* The 200 of a preflight: corsMiddleware, lines 2029-2032 (and requireServiceAuth,
\* lines 2060-2063, behind it): headers, status, nothing else.
Preflight ==
    /\ Idle
    /\ \E r \in Requests :
        /\ Chain(r) = "preflight"
        /\ Serve(r, "none", [status |-> 200, cors |-> TRUE, ctype |-> "", body |-> [kind |-> "none"]], <<>>)

\* requireServiceAuth, lines 2071-2081: the 401 answers.
Unauthorized ==
    /\ Idle
    /\ \E r \in Requests :
        /\ Chain(r) \in {"missing", "invalid"}
        /\ Serve(r, "none",
                 HttpError(IF Chain(r) = "missing"
                           THEN "Missing X-Service-Auth header"
                           ELSE "Invalid service authentication", 401),
                 <<>>)

\* healthHandler, lines 2088-2091.
healthHandler ==
    /\ Idle
    /\ \E r \in Requests :
        /\ Reaches(r, "healthHandler")
        /\ Serve(r, "healthHandler",
                 [status |-> 200, cors |-> TRUE, ctype |-> "", body |-> [kind |-> "text", text |-> "OK"]],
                 <<>>)

\* metricsHandler, lines 2094-2108.
metricsHandler ==
    /\ Idle
    /\ \E r \in Requests :
        /\ Reaches(r, "metricsHandler")
        /\ Serve(r, "metricsHandler",
                 [status |-> 200, cors |-> TRUE, ctype |-> "text/plain", body |-> [kind |-> "metrics"]],
                 <<>>)

\* createCountryHandler, lines 2972-2974.
createCountryHandler ==
    /\ Idle
    /\ \E r \in Requests :
        /\ Reaches(r, "createCountryHandler")
        /\ Serve(r, "createCountryHandler", HttpError("Not implemented", 501), <<>>)

\* createLandmarkHandler, lines 2976-2978.
createLandmarkHandler ==
    /\ Idle
    /\ \E r \in Requests :
        /\ Reaches(r, "createLandmarkHandler")
        /\ Serve(r, "createLandmarkHandler", HttpError("Not implemented", 501), <<>>)

\* createBoundaryHandler, lines 2980-2982.
createBoundaryHandler ==
    /\ Idle
    /\ \E r \in Requests :
        /\ Reaches(r, "createBoundaryHandler")
        /\ Serve(r, "createBoundaryHandler", HttpError("Not implemented", 501), <<>>)

\* ---------------------------------------------------------------- spatial resolver

TierCollections == {Tiers[i].collection : i \in 1..Len(Tiers)}

\* A pre-filter with open bounds: a point on the rectangle's edge is left out.
InBoundsOpen(d, lat, lon) ==
    /\ d.bounds.min_lat < lat /\ d.bounds.max_lat > lat
    /\ d.bounds.min_lon < lon /\ d.bounds.max_lon > lon

\* The four range filters of the stage-1 query, lines 1390-1393.
InBounds(d, lat, lon) ==
    /\ d.bounds.min_lat <= lat /\ d.bounds.max_lat >= lat
    /\ d.bounds.min_lon <= lon /\ d.bounds.max_lon >= lon

\* A resolver that keeps the first match only.
findContainingEntitiesFirstOnly(collection, lat, lon, down) ==
    IF collection \in down THEN <<>>
    ELSE LET docs == SelectSeq(store[collection], LAMBDA d : d.is_active /\ InBounds(d, lat, lon))
             hits == SelectSeq(docs, LAMBDA d : d.geometry.type # ""
                                                /\ isPointInGeometry(lat, lon, d.geometry))
         IN  IF hits = <<>> THEN <<>> ELSE <<hits[1]>>

\* A resolver for which one candidate without a usable geometry fails the tier.
findContainingEntitiesFailFast(collection, lat, lon, down) ==
    IF collection \in down THEN <<>>
    ELSE LET docs == SelectSeq(store[collection], LAMBDA d : d.is_active /\ InBounds(d, lat, lon))
         IN  IF \E k \in 1..Len(docs) : docs[k].geometry.type \notin {"Polygon", "MultiPolygon"}
             THEN <<>>
             ELSE SelectSeq(docs, LAMBDA d : isPointInGeometry(lat, lon, d.geometry))

\* findContainingEntities, lines 1383-1421: a failed query gives no results.
findContainingEntities(collection, lat, lon, down) ==
    IF collection \in down THEN <<>>
    ELSE LET docs == SelectSeq(store[collection], LAMBDA d : d.is_active /\ InBounds(d, lat, lon))
         IN  SelectSeq(docs, LAMBDA d : d.geometry.type # ""
                                        /\ isPointInGeometry(lat, lon, d.geometry))

\* A handler that queries the tiers from the last to the first.
RECURSIVE BoundaryGroupsReversed(_, _, _, _)
BoundaryGroupsReversed(lat, lon, down, i) ==
    IF i > Len(Tiers) THEN <<>>
    ELSE LET found == findContainingEntities(Tiers[i].collection, lat, lon, down)
             rest == BoundaryGroupsReversed(lat, lon, down, i + 1)
         IN  IF Len(found) > 0
             THEN Append(rest, [type |-> Tiers[i].type, entities |-> found])
             ELSE rest

\* getBoundariesContainingHandler, lines 2771-2804: one group per tier with results.
RECURSIVE BoundaryGroups(_, _, _, _)
BoundaryGroups(lat, lon, down, i) ==
    IF i > Len(Tiers) THEN <<>>
    ELSE LET found == findContainingEntities(Tiers[i].collection, lat, lon, down)
             rest == BoundaryGroups(lat, lon, down, i + 1)
         IN  IF Len(found) > 0
             THEN <<[type |-> Tiers[i].type, entities |-> found]>> \o rest
             ELSE rest

ContainingResponse(q, down) ==
    IF q.lat.kind # "num" THEN HttpError("Invalid lat parameter", 400)
    ELSE IF q.lon.kind # "num" THEN HttpError("Invalid lon parameter", 400)
    ELSE LET boundaries == BoundaryGroups(q.lat.val, q.lon.val, down, 1)
         IN  Json([kind |-> "containing", lat |-> q.lat.val, lon |-> q.lon.val,
                   boundaries |-> boundaries, count |-> Len(boundaries)])

ContainingReads(q, down) ==
    IF q.lat.kind # "num" \/ q.lon.kind # "num" THEN <<>>
    ELSE [i \in 1..Len(Tiers) |-> ReadOf(Tiers[i].collection, down)]

\* getBoundariesContainingHandler, lines 2755-2815.
getBoundariesContainingHandler ==
    /\ Idle
    /\ \E r \in Requests, down \in Outages(TierCollections) :
        /\ Reaches(r, "getBoundariesContainingHandler")
        /\ Serve(r, "getBoundariesContainingHandler",
                 ContainingResponse(r.query, down), ContainingReads(r.query, down))

\* ---------------------------------------------------------------- bulk enrichment

\* strings.ToLower on the names the fixture and the mock table hold.
ToLower(s) ==
    CASE s = "United States" -> "united states"
      [] s = "New York" -> "new york"
      [] s = "New York City" -> "new york city"
      [] s = "Manhattan" -> "manhattan"
      [] s = "France" -> "france"
      [] s = "Atoll" -> "atoll"
      [] s = "Farlands" -> "farlands"
      [] s = "Gaul" -> "gaul"
      [] s = "Blank" -> "blank"
      [] s = "Corrupt" -> "corrupt"
      [] s = "River" -> "river"
      [] s = "Shrunk" -> "shrunk"
      [] OTHER -> s

MockBoundary(id, name, type, level, resolution) ==
    [id |-> id, name |-> name, type |-> type, level |-> level,
     resolution_requirement |-> resolution]

\* getMockBoundariesForPoint, lines 3487-3536: four nested rectangles, no store read.
getMockBoundariesForPoint(lat, lon) ==
    IF ~(lat >= 2500 /\ lat <= 4900 /\ lon >= -12500 /\ lon <= -6600) THEN <<>>
    ELSE <<MockBoundary("usa", "United States", "country", 0, "1km")>> \o
         (IF ~(lat >= 4040 /\ lat <= 4500 /\ lon >= -7980 /\ lon <= -7180) THEN <<>>
          ELSE <<MockBoundary("ny_usa", "New York", "state", 1, "100m")>> \o
               (IF ~(lat >= 4040 /\ lat <= 4090 /\ lon >= -7430 /\ lon <= -7370) THEN <<>>
                ELSE <<MockBoundary("nyc_ny_usa", "New York City", "city", 2, "100m")>> \o
                     (IF ~(lat >= 4068 /\ lat <= 4088 /\ lon >= -7405 /\ lon <= -7390)
                      THEN <<>>
                      ELSE <<MockBoundary("manhattan_core", "Manhattan", "borough", 3, "100m")>>)))

\* getMockLandmarksForPoint, lines 3538-3547.
getMockLandmarksForPoint(lat, lon) ==
    IF lat >= 4040 /\ lat <= 4090 /\ lon >= -7430 /\ lon <= -7370
    THEN <<"statue_of_liberty", "empire_state_building", "central_park">>
    ELSE <<>>

\* The loop body of batchLookupBoundariesHandler, lines 2826-2850, for one point.
SquareEnrichment(point) ==
    LET boundaries == getMockBoundariesForPoint(point.lat, point.lon)
    IN  [square_id |-> point.square_id,
         boundary_tags |-> [k \in 1..Len(boundaries) |-> ToLower(boundaries[k].name)],
         resolution |-> IF Len(boundaries) = 0 THEN "1km"
                        ELSE boundaries[Len(boundaries)].resolution_requirement,
         landmarks_nearby |-> getMockLandmarksForPoint(point.lat, point.lon)]

\* A loop that drops the points it has no boundary for.
BatchLookupResultsSkipEmpty(points) ==
    LET all == [i \in 1..Len(points) |-> SquareEnrichment(points[i])]
    IN  SelectSeq(all, LAMBDA e : Len(e.boundary_tags) > 0)

\* The loop of batchLookupBoundariesHandler, lines 2825-2851.
BatchLookupResults(points) ==
    [i \in 1..Len(points) |-> SquareEnrichment(points[i])]

\* batchLookupBoundariesHandler, lines 2818-2857.
batchLookupBoundariesHandler ==
    /\ Idle
    /\ \E r \in Requests :
        /\ Reaches(r, "batchLookupBoundariesHandler")
        /\ Serve(r, "batchLookupBoundariesHandler",
                 IF ~r.body.valid THEN HttpError("Invalid request body", 400)
                 ELSE Json([kind |-> "batch-lookup", results |-> BatchLookupResults(r.body.points)]),
                 <<>>)

\* ---------------------------------------------------------------- coastline classifier

\* haversineDistance, lines 1884-1897, in whole metres (the code returns
\* kilometres as a float64): its values on the points of the inputs and the
\* centres of the fixture's coastline bounds.
HaversineMeters ==
    <<4071, -7401, 4050, -7400>> :> 23366 @@
    <<4071, -7401, 2900, -4000>> :> 3338998 @@
    <<4071, -7401, 0, 0>> :> 8667342 @@
    <<4886, 235, 4050, -7400>> :> 5850573 @@
    <<4886, 235, 2900, -4000>> :> 4200957 @@
    <<4886, 235, 0, 0>> :> 5437663 @@
    <<4886, -400, 4050, -7400>> :> 5413467 @@
    <<4886, -400, 2900, -4000>> :> 3762431 @@
    <<4886, -400, 0, 0>> :> 5446529 @@
    <<0, 0, 4050, -7400>> :> 8662230 @@
    <<0, 0, 2900, -4000>> :> 5329920 @@
    <<0, 0, 0, 0>> :> 0 @@
    <<500, 500, 4050, -7400>> :> 8717257 @@
    <<500, 500, 2900, -4000>> :> 5429186 @@
    <<500, 500, 0, 0>> :> 785767 @@
    <<3000, -4000, 4050, -7400>> :> 3276170 @@
    <<3000, -4000, 2900, -4000>> :> 111195 @@
    <<3000, -4000, 0, 0>> :> 5386197 @@
    <<9000, 18000, 4050, -7400>> :> 5504149 @@
    <<9000, 18000, 2900, -4000>> :> 6782891 @@
    <<9000, 18000, 0, 0>> :> 10007543 @@
    <<-9000, -18000, 4050, -7400>> :> 14510938 @@
    <<-9000, -18000, 2900, -4000>> :> 13232196 @@
    <<-9000, -18000, 0, 0>> :> 10007543 @@
    <<9001, 0, 4050, -7400>> :> 5504455 @@
    <<9001, 0, 2900, -4000>> :> 6783742 @@
    <<9001, 0, 0, 0>> :> 10008655 @@
    <<-9001, 0, 4050, -7400>> :> 14511244 @@
    <<-9001, 0, 2900, -4000>> :> 13233048 @@
    <<-9001, 0, 0, 0>> :> 10008655 @@
    <<0, 18001, 4050, -7400>> :> 11352026 @@
    <<0, 18001, 2900, -4000>> :> 14684325 @@
    <<0, 18001, 0, 0>> :> 20013975 @@
    <<0, -18001, 4050, -7400>> :> 11353688 @@
    <<0, -18001, 2900, -4000>> :> 14686009 @@
    <<0, -18001, 0, 0>> :> 20013975

haversineDistance(lat1, lon1, lat2, lon2) == HaversineMeters[<<lat1, lon1, lat2, lon2>>]

Km(n) == n * 1000

ActiveDocs(collection) == SelectSeq(store[collection], LAMBDA d : d.is_active)

\* isPointOnLand, lines 1772-1810: an error when the query fails, else whether the
\* point is inside the bounds of any active land polygon.
isPointOnLand(lat, lon, down) ==
    IF "land_polygons" \in down THEN [err |-> TRUE, land |-> FALSE]
    ELSE [err |-> FALSE,
          land |-> \E i \in 1..Len(ActiveDocs("land_polygons")) :
                      LET b == ActiveDocs("land_polygons")[i].bounds
                      IN  lat >= b.min_lat /\ lat <= b.max_lat
                          /\ lon >= b.min_lon /\ lon <= b.max_lon]

\* Line 1838: a segment is skipped when the point is outside its bounds widened
\* by 2 degrees.
CoastCandidate(d, lat, lon) ==
    ~(\/ lat < d.bounds.min_lat - Deg(2) \/ lat > d.bounds.max_lat + Deg(2)
      \/ lon < d.bounds.min_lon - Deg(2) \/ lon > d.bounds.max_lon + Deg(2))

\* Lines 1846-1847: the centre of a segment's bounds.
CoastCentre(d) ==
    [lat |-> (d.bounds.min_lat + d.bounds.max_lat) \div 2,
     lon |-> (d.bounds.min_lon + d.bounds.max_lon) \div 2]

\* The loop of calculateDistanceToCoast, lines 1827-1858: the first nearest centre.
RECURSIVE ClosestCentre(_, _, _, _, _)
ClosestCentre(docs, lat, lon, i, best) ==
    IF i > Len(docs) THEN best
    ELSE IF ~CoastCandidate(docs[i], lat, lon) THEN ClosestCentre(docs, lat, lon, i + 1, best)
    ELSE LET c == CoastCentre(docs[i])
             dist == haversineDistance(lat, lon, c.lat, c.lon)
         IN  ClosestCentre(docs, lat, lon, i + 1,
                           IF dist < best.distance
                           THEN [found |-> TRUE, distance |-> dist, point |-> c]
                           ELSE best)

\* calculateDistanceToCoast, lines 1813-1865. minDistance starts at 99999999 km
\* (line 1823); here at 99999 km, which is as far above every distance on Earth.
calculateDistanceToCoast(lat, lon, down) ==
    IF "coastlines" \in down THEN [err |-> TRUE, distance |-> 0, point |-> [lat |-> 0, lon |-> 0]]
    ELSE LET best == ClosestCentre(ActiveDocs("coastlines"), lat, lon, 1,
                                   [found |-> FALSE, distance |-> Km(99999),
                                    point |-> [lat |-> 0, lon |-> 0]])
         IN  IF ~best.found THEN [err |-> TRUE, distance |-> 0, point |-> [lat |-> 0, lon |-> 0]]
             ELSE [err |-> FALSE, distance |-> best.distance, point |-> best.point]

\* A fallback that takes a point exactly 1 km from the coast for land.
FallbackIsLandUpTo(distanceToCoast) == distanceToCoast <= Km(1)

\* Line 1758: isLand = distanceToCoast < 1.0.
FallbackIsLand(distanceToCoast) == distanceToCoast < Km(1)

\* A classifier whose fallback takes the default distance when the coast
\* distance cannot be computed, as its other branch does.
classifyPointFallbackDefault(lat, lon, down) ==
    LET land == isPointOnLand(lat, lon, down)
        coast == calculateDistanceToCoast(lat, lon, down)
        distance == IF coast.err THEN Km(10) ELSE coast.distance
    IN  [err |-> FALSE, isLand |-> IF land.err THEN FallbackIsLand(distance) ELSE land.land,
         distanceToCoast |-> distance]

\* classifyPoint, lines 1747-1769.
classifyPoint(lat, lon, down) ==
    LET land == isPointOnLand(lat, lon, down)
        coast == calculateDistanceToCoast(lat, lon, down)
    IN  IF land.err
        THEN (IF coast.err THEN [err |-> TRUE, isLand |-> FALSE, distanceToCoast |-> 0]
              ELSE [err |-> FALSE, isLand |-> FallbackIsLand(coast.distance),
                    distanceToCoast |-> coast.distance])
        ELSE [err |-> FALSE, isLand |-> land.land,
              distanceToCoast |-> IF coast.err THEN Km(10) ELSE coast.distance]

\* A mapping that sends exactly 1000 km to the coarse grid.
determineGridResolutionAtLeast(isLand, distanceToCoast) ==
    IF isLand THEN "1x1km"
    ELSE IF distanceToCoast >= Km(1000) THEN "100x100km"
    ELSE "10x10km"

\* determineGridResolution, lines 1868-1881.
determineGridResolution(isLand, distanceToCoast) ==
    IF isLand THEN "1x1km"
    ELSE IF distanceToCoast > Km(1000) THEN "100x100km"
    ELSE "10x10km"

CoordinatesOutOfRange(lat, lon) ==
    lat < Deg(-90) \/ lat > Deg(90) \/ lon < Deg(-180) \/ lon > Deg(180)

\* Lines 1572-1590 (and 1632-1650): the error the parameters are refused with, or
\* the empty string.
ParseLatLon(q) ==
    IF q.lat.kind = "missing" \/ q.lon.kind = "missing" THEN "Missing lat or lon parameters"
    ELSE IF q.lat.kind = "garbage" THEN "Invalid lat parameter"
    ELSE IF q.lon.kind = "garbage" THEN "Invalid lon parameter"
    ELSE ""

\* The store reads of one classifyPoint call: land_polygons (line 1775), then
\* coastlines (line 1816), on both of its branches.
ClassifyReads(down) == <<ReadOf("land_polygons", down), ReadOf("coastlines", down)>>

ClassifyResponse(q, down) ==
    IF ParseLatLon(q) # "" THEN HttpError(ParseLatLon(q), 400)
    ELSE IF CoordinatesOutOfRange(q.lat.val, q.lon.val)
    THEN HttpError("Coordinates out of valid range", 400)
    ELSE LET c == classifyPoint(q.lat.val, q.lon.val, down)
         IN  IF c.err THEN HttpError("Failed to classify point", 500)
             ELSE Json([kind |-> "classify", lat |-> q.lat.val, lon |-> q.lon.val,
                        type |-> IF c.isLand THEN "land" ELSE "ocean",
                        distance_to_coast |-> c.distanceToCoast,
                        grid_resolution |-> determineGridResolution(c.isLand, c.distanceToCoast)])

\* classifyPointHandler, lines 1570-1627.
classifyPointHandler ==
    /\ Idle
    /\ \E r \in Requests, down \in Outages({"land_polygons", "coastlines"}) :
        /\ Reaches(r, "classifyPointHandler")
        /\ Serve(r, "classifyPointHandler", ClassifyResponse(r.query, down),
                 IF ParseLatLon(r.query) # "" \/ CoordinatesOutOfRange(r.query.lat.val, r.query.lon.val)
                 THEN <<>> ELSE ClassifyReads(down))

DistanceResponse(q, down) ==
    IF ParseLatLon(q) # "" THEN HttpError(ParseLatLon(q), 400)
    ELSE LET c == calculateDistanceToCoast(q.lat.val, q.lon.val, down)
         IN  IF c.err THEN HttpError("Failed to calculate distance", 500)
             ELSE Json([kind |-> "distance", lat |-> q.lat.val, lon |-> q.lon.val,
                        distance_to_coast |-> c.distance, nearest_coast_point |-> c.point])

\* distanceToCoastHandler, lines 1630-1673.
distanceToCoastHandler ==
    /\ Idle
    /\ \E r \in Requests, down \in Outages({"coastlines"}) :
        /\ Reaches(r, "distanceToCoastHandler")
        /\ Serve(r, "distanceToCoastHandler", DistanceResponse(r.query, down),
                 IF ParseLatLon(r.query) # "" THEN <<>> ELSE <<ReadOf("coastlines", down)>>)

BatchEntry(error, type, distance, resolution) ==
    [error |-> error, type |-> type, distance_to_coast |-> distance, grid_resolution |-> resolution]

\* The loop body of batchClassifyHandler, lines 1702-1735, for one point.
ClassifyEntry(point, down) ==
    IF CoordinatesOutOfRange(point.lat, point.lon) THEN BatchEntry("Invalid coordinates", "", 0, "")
    ELSE LET c == classifyPoint(point.lat, point.lon, down)
         IN  IF c.err THEN BatchEntry("Classification failed", "", 0, "")
             ELSE BatchEntry("", IF c.isLand THEN "land" ELSE "ocean", c.distanceToCoast,
                             determineGridResolution(c.isLand, c.distanceToCoast))

\* A cap that refuses a list of exactly the maximum.
TooManyPointsAtCap(points) == Len(points) >= MaxBatch

\* Line 1694.
TooManyPoints(points) == Len(points) > MaxBatch

BatchClassifyResponse(b, down) ==
    IF ~b.valid THEN HttpError("Invalid JSON body", 400)
    ELSE IF Len(b.points) = 0 THEN HttpError("No points provided", 400)
    ELSE IF TooManyPoints(b.points) THEN HttpError("Too many points (max 1000)", 400)
    ELSE Json([kind |-> "batch-classify",
               results |-> [i \in 1..Len(b.points) |-> ClassifyEntry(b.points[i], down)],
               count |-> Len(b.points)])

\* The store reads of the loop: two for each point in range, in the order of the
\* points.
BatchClassifyReads(b, down) ==
    IF ~b.valid \/ Len(b.points) = 0 \/ TooManyPoints(b.points) THEN <<>>
    ELSE LET inRange == SelectSeq(b.points, LAMBDA p : ~CoordinatesOutOfRange(p.lat, p.lon))
         IN  [k \in 1..(2 * Len(inRange)) |->
                 ReadOf(IF k % 2 = 1 THEN "land_polygons" ELSE "coastlines", down)]

\* batchClassifyHandler, lines 1676-1744.
batchClassifyHandler ==
    /\ Idle
    /\ \E r \in Requests, down \in Outages({"land_polygons", "coastlines"}) :
        /\ Reaches(r, "batchClassifyHandler")
        /\ Serve(r, "batchClassifyHandler", BatchClassifyResponse(r.body, down),
                 BatchClassifyReads(r.body, down))

\* ---------------------------------------------------------------- catalogue reads

\* Lines 2873-2892 and 2899-2917: one achievement per active document.
AchievementsOf(collection) ==
    LET docs == ActiveDocs(collection)
    IN  [i \in 1..Len(docs) |-> [id |-> docs[i].achievement, source |-> docs[i].id]]

AchievementsResponse(down) ==
    IF "landmarks" \in down THEN HttpError("Failed to get achievements", 500)
    ELSE LET achievements == AchievementsOf("landmarks") \o
                             (IF "restaurants" \in down THEN <<>> ELSE AchievementsOf("restaurants"))
         IN  Json([kind |-> "achievements", achievements |-> achievements,
                   count |-> Len(achievements)])

\* getAchievementDefinitionsHandler, lines 2860-2927.
getAchievementDefinitionsHandler ==
    /\ Idle
    /\ \E r \in Requests, down \in Outages({"landmarks", "restaurants"}) :
        /\ Reaches(r, "getAchievementDefinitionsHandler")
        /\ Serve(r, "getAchievementDefinitionsHandler", AchievementsResponse(down),
                 IF "landmarks" \in down THEN <<ReadOf("landmarks", down)>>
                 ELSE <<ReadOf("landmarks", down), ReadOf("restaurants", down)>>)

\* Collection("countries").Doc(id).Get, line 2213: an error when the store fails
\* or holds no such document.
GetCountry(id, down) ==
    IF "countries" \in down THEN [err |-> TRUE, id |-> ""]
    ELSE IF \E i \in 1..Len(store["countries"]) : store["countries"][i].id = id
    THEN [err |-> FALSE, id |-> id]
    ELSE [err |-> TRUE, id |-> ""]

\* getCountryHandler, lines 2208-2227.
getCountryHandler ==
    /\ Idle
    /\ \E r \in Requests, down \in Outages({"countries"}) :
        /\ Reaches(r, "getCountryHandler")
        /\ Serve(r, "getCountryHandler",
                 IF GetCountry(r.path[2], down).err THEN HttpError("Country not found", 404)
                 ELSE Json([kind |-> "country", id |-> r.path[2]]),
                 <<ReadOf("countries", down)>>)

\* ---------------------------------------------------------------- bulk countries

\* A JSON value that may be null.
Null == [null |-> TRUE, value |-> ""]
Some(v) == [null |-> FALSE, value |-> v]

BulkRow(id, name, type, isTerritory, sovereignStateName) ==
    [id |-> id, name |-> name, type |-> type, is_territory |-> isTerritory,
     sovereign_state_name |-> sovereignStateName]

\* sovereignMap, lines 2645-2653, looked up at line 2706: the name of the active
\* sovereign state with this id (the last one, had several the same id).
SovereignMapName(sovereignDocs, id) ==
    LET at == {i \in 1..Len(sovereignDocs) : sovereignDocs[i].id = id}
    IN  IF at = {} THEN Null
        ELSE Some(sovereignDocs[CHOOSE i \in at : \A j \in at : j <= i].name)

\* Lines 2660-2687: one row per active sovereign state.
SovereignRows(sovereignDocs) ==
    [i \in 1..Len(sovereignDocs) |->
        BulkRow(sovereignDocs[i].id, sovereignDocs[i].name, "sovereign_state", FALSE, Null)]

\* Lines 2702-2709 and 2711-2726: the row of a country.
CountryRow(country, sovereignDocs) ==
    LET isTerritory == country.sovereign_state_id # country.id /\ country.sovereign_state_id # ""
    IN  BulkRow(country.id, country.name, "country", isTerritory,
                IF isTerritory THEN SovereignMapName(sovereignDocs, country.sovereign_state_id)
                ELSE Null)

\* A second loop that never consults processedEntities.
RECURSIVE CountryRowsNoDedup(_, _, _, _)
CountryRowsNoDedup(countryDocs, sovereignDocs, i, processedEntities) ==
    IF i > Len(countryDocs) THEN <<>>
    ELSE <<CountryRow(countryDocs[i], sovereignDocs)>>
         \o CountryRowsNoDedup(countryDocs, sovereignDocs, i + 1, processedEntities)

\* A second loop that marks every country a territory of its sovereign state.
RECURSIVE CountryRowsAllTerritories(_, _, _, _)
CountryRowsAllTerritories(countryDocs, sovereignDocs, i, processedEntities) ==
    IF i > Len(countryDocs) THEN <<>>
    ELSE IF countryDocs[i].id \in processedEntities
    THEN CountryRowsAllTerritories(countryDocs, sovereignDocs, i + 1, processedEntities)
    ELSE <<BulkRow(countryDocs[i].id, countryDocs[i].name, "country", TRUE,
                   SovereignMapName(sovereignDocs, countryDocs[i].sovereign_state_id))>>
         \o CountryRowsAllTerritories(countryDocs, sovereignDocs, i + 1,
                                      processedEntities \cup {countryDocs[i].id})

\* The second loop, lines 2690-2731: the countries not yet in processedEntities.
RECURSIVE CountryRows(_, _, _, _)
CountryRows(countryDocs, sovereignDocs, i, processedEntities) ==
    IF i > Len(countryDocs) THEN <<>>
    ELSE IF countryDocs[i].id \in processedEntities
    THEN CountryRows(countryDocs, sovereignDocs, i + 1, processedEntities)
    ELSE <<CountryRow(countryDocs[i], sovereignDocs)>>
         \o CountryRows(countryDocs, sovereignDocs, i + 1,
                        processedEntities \cup {countryDocs[i].id})

\* A processedEntities that outlives the call: it still holds the ids the earlier
\* call marked.
ProcessedEntitiesKept == Range(previousBulk.ids)

\* processedEntities := make(map[string]bool), line 2656.
NewProcessedEntities == {}

\* Lines 2655-2731: the rows of the answer.
BulkRows ==
    LET sovereignDocs == ActiveDocs("sovereign_states")
        countryDocs == ActiveDocs("countries")
    IN  SovereignRows(sovereignDocs)
        \o CountryRows(countryDocs, sovereignDocs, 1,
                       NewProcessedEntities \cup {sovereignDocs[i].id : i \in 1..Len(sovereignDocs)})

BulkResponse(down) ==
    IF "sovereign_states" \in down THEN HttpError("Failed to get sovereign states", 500)
    ELSE IF "countries" \in down THEN HttpError("Failed to get countries", 500)
    ELSE Json([kind |-> "bulk", countries |-> BulkRows, user_id |-> "unknown",
               visited_count |-> 0, total_count |-> Len(BulkRows)])

\* getBulkCountriesHandler, lines 2617-2752 (no user_id parameter among the inputs).
getBulkCountriesHandler ==
    /\ Idle
    /\ \E r \in Requests, down \in Outages({"sovereign_states", "countries"}) :
        /\ Reaches(r, "getBulkCountriesHandler")
        /\ Serve(r, "getBulkCountriesHandler", BulkResponse(down),
                 IF "sovereign_states" \in down THEN <<ReadOf("sovereign_states", down)>>
                 ELSE <<ReadOf("sovereign_states", down), ReadOf("countries", down)>>)

\* ---------------------------------------------------------------- polygons

\* Lines 1456-1462 (and 1497-1503, 1547-1554): the polygon of a country document.
PolygonOf(d) ==
    [id |-> d.id, name |-> d.name, type |-> "country", geometry |-> d.geometry, bounds |-> d.bounds]

\* A listing that keeps the rows without geometry.
PolygonsOfAnyGeometry(docs) ==
    [i \in 1..Len(docs) |-> PolygonOf(docs[i])]

\* The loops at lines 1485-1506 and 1535-1557: rows with an empty geometry are
\* skipped.
PolygonsOf(docs) ==
    LET kept == SelectSeq(docs, LAMBDA d : d.geometry.type # "")
    IN  [i \in 1..Len(kept) |-> PolygonOf(kept[i])]

\* getCountryPolygonHandler, lines 1424-1465, for the document id.
CountryPolygonResponse(id, down) ==
    LET at == {i \in 1..Len(store["countries"]) : store["countries"][i].id = id}
    IN  IF "countries" \in down \/ at = {} THEN HttpError("Country not found", 404)
        ELSE LET d == store["countries"][CHOOSE i \in at : TRUE]
             IN  IF ~d.is_active THEN HttpError("Country not active", 404)
                 ELSE IF d.geometry.type = "" THEN HttpError("Country geometry not available", 404)
                 ELSE Json([kind |-> "polygon", polygon |-> PolygonOf(d)])

getCountryPolygonHandler ==
    /\ Idle
    /\ \E r \in Requests, down \in Outages({"countries"}) :
        /\ Reaches(r, "getCountryPolygonHandler")
        /\ Serve(r, "getCountryPolygonHandler", CountryPolygonResponse(r.path[3], down),
                 <<ReadOf("countries", down)>>)

\* getContinentPolygonsHandler, lines 1468-1517.
getContinentPolygonsHandler ==
    /\ Idle
    /\ \E r \in Requests, down \in Outages({"countries"}) :
        /\ Reaches(r, "getContinentPolygonsHandler")
        /\ Serve(r, "getContinentPolygonsHandler",
                 IF "countries" \in down THEN HttpError("Failed to fetch continent data", 500)
                 ELSE LET polygons == PolygonsOf(SelectSeq(ActiveDocs("countries"),
                                                           LAMBDA d : d.continent = r.path[3]))
                      IN  Json([kind |-> "polygons", continent |-> r.path[3],
                                count |-> Len(polygons), polygons |-> polygons]),
                 <<ReadOf("countries", down)>>)

\* getWorldPolygonsHandler, lines 1520-1567.
getWorldPolygonsHandler ==
    /\ Idle
    /\ \E r \in Requests, down \in Outages({"countries"}) :
        /\ Reaches(r, "getWorldPolygonsHandler")
        /\ Serve(r, "getWorldPolygonsHandler",
                 IF "countries" \in down THEN HttpError("Failed to fetch world data", 500)
                 ELSE LET polygons == PolygonsOf(ActiveDocs("countries"))
                      IN  Json([kind |-> "polygons", continent |-> "",
                                count |-> Len(polygons), polygons |-> polygons]),
                 <<ReadOf("countries", down)>>)

\* ---------------------------------------------------------------- landmarks

\* getLandmarkHandler, lines 2522-2540: the document with the id, active or not.
getLandmarkHandler ==
    /\ Idle
    /\ \E r \in Requests, down \in Outages({"landmarks"}) :
        /\ Reaches(r, "getLandmarkHandler")
        /\ Serve(r, "getLandmarkHandler",
                 IF \/ "landmarks" \in down
                    \/ ~\E i \in 1..Len(store["landmarks"]) : store["landmarks"][i].id = r.path[2]
                 THEN HttpError("Landmark not found", 404)
                 ELSE Json([kind |-> "landmark", id |-> r.path[2]]),
                 <<ReadOf("landmarks", down)>>)

\* calculateDistance, lines 3470-3484, in metres, on the points of the nearby
\* searches and of the fixture's landmarks: the whole metres of the float64
\* result, and whether the result is a whole number of metres.
DistanceMeters ==
    <<4069, -7404, 4069, -7404>> :> [floor |-> 0, whole |-> TRUE] @@
    <<4069, -7404, 4886, 229>> :> [floor |-> 5836685, whole |-> FALSE] @@
    <<4069, -7404, 4070, -7400>> :> [floor |-> 3550, whole |-> FALSE] @@
    <<4071, -7401, 4069, -7404>> :> [floor |-> 3367, whole |-> FALSE] @@
    <<4071, -7401, 4886, 229>> :> [floor |-> 5833330, whole |-> FALSE] @@
    <<4071, -7401, 4070, -7400>> :> [floor |-> 1395, whole |-> FALSE] @@
    <<4886, 235, 4069, -7404>> :> [floor |-> 5840761, whole |-> FALSE] @@
    <<4886, 235, 4886, 229>> :> [floor |-> 4389, whole |-> FALSE] @@
    <<4886, 235, 4070, -7400>> :> [floor |-> 5837386, whole |-> FALSE] @@
    <<0, 0, 4069, -7404>> :> [floor |-> 8669420, whole |-> FALSE] @@
    <<0, 0, 4886, 229>> :> [floor |-> 5437427, whole |-> FALSE] @@
    <<0, 0, 4070, -7400>> :> [floor |-> 8666309, whole |-> FALSE]

calculateDistance(lat1, lon1, lat2, lon2) == DistanceMeters[<<lat1, lon1, lat2, lon2>>]

\* A search that skips the precise distance test and trusts the latitude band.
WithinRadiusUnchecked(distance, radius) == TRUE

\* distance <= radius, line 2588, for a radius in whole metres.
WithinRadius(distance, radius) ==
    IF distance.whole THEN distance.floor <= radius ELSE distance.floor < radius

\* getFloatQueryParam and getIntQueryParam, lines 3429-3455.
QueryParamOr(param, defaultValue) ==
    IF param.kind = "num" THEN param.val ELSE defaultValue

\* calculateBoundingBox, lines 3457-3468, as the query uses it (lines 2567-2568):
\* the landmark's latitude is within radius / 111000 degrees of the point's.
InLatitudeBand(landmark, lat, radius) ==
    /\ (lat - landmark.lat) * 1110 <= radius
    /\ (landmark.lat - lat) * 1110 <= radius

\* The order of a query with a range filter on coordinates.lat: by latitude,
\* documents of one latitude in the order of their ids.
RECURSIVE ByLatitude(_)
ByLatitude(docs) ==
    IF docs = <<>> THEN <<>>
    ELSE LET first == CHOOSE i \in 1..Len(docs) :
                        \A j \in 1..Len(docs) :
                            docs[i].lat < docs[j].lat \/ (docs[i].lat = docs[j].lat /\ i <= j)
         IN  <<docs[first]>>
             \o ByLatitude([k \in 1..(Len(docs) - 1) |-> IF k < first THEN docs[k] ELSE docs[k + 1]])

\* The query of lines 2565-2569.
NearbyDocs(lat, radius, limit) ==
    LET hits == ByLatitude(SelectSeq(ActiveDocs("landmarks"),
                                     LAMBDA d : InLatitudeBand(d, lat, radius)))
    IN  IF limit * 2 >= Len(hits) THEN hits
        ELSE IF limit * 2 <= 0 THEN <<>>
        ELSE SubSeq(hits, 1, limit * 2)

\* The loop of lines 2579-2604.
RECURSIVE NearbyLoop(_, _, _, _, _, _, _)
NearbyLoop(docs, lat, lon, radius, limit, i, landmarks) ==
    IF i > Len(docs) THEN landmarks
    ELSE LET distance == calculateDistance(lat, lon, docs[i].lat, docs[i].lon)
             found == IF WithinRadius(distance, radius)
                      THEN Append(landmarks, [id |-> docs[i].id, distance_meters |-> distance.floor])
                      ELSE landmarks
         IN  IF Len(found) >= limit THEN found
             ELSE NearbyLoop(docs, lat, lon, radius, limit, i + 1, found)

NearbyResponse(q, down) ==
    IF q.lat.kind # "num" THEN HttpError("Invalid lat parameter", 400)
    ELSE IF q.lon.kind # "num" THEN HttpError("Invalid lon parameter", 400)
    ELSE IF "landmarks" \in down THEN HttpError("Failed to get landmarks", 500)
    ELSE LET radius == QueryParamOr(q.radius, 1000)
             limit == QueryParamOr(q.limit, 20)
             landmarks == NearbyLoop(NearbyDocs(q.lat.val, radius, limit),
                                     q.lat.val, q.lon.val, radius, limit, 1, <<>>)
         IN  Json([kind |-> "nearby", landmarks |-> landmarks, count |-> Len(landmarks)])

\* getLandmarksNearbyHandler, lines 2542-2614, called with a request: the router
\* never dispatches to it (its route follows /landmarks/{id}, lines 1962-1963).
getLandmarksNearbyHandler ==
    /\ Idle
    /\ \E r \in Requests, down \in Outages({"landmarks"}) :
        /\ r.path = NearbyPath /\ r.method = "GET"
        /\ Serve(r, "getLandmarksNearbyHandler", NearbyResponse(r.query, down),
                 IF r.query.lat.kind # "num" \/ r.query.lon.kind # "num" THEN <<>>
                 ELSE <<ReadOf("landmarks", down)>>)

\* ---------------------------------------------------------------- the resolver, step by step

\* getBoundariesContainingHandler, lines 2755-2770: ctx is context.Background(),
\* the coordinates parse, and the first tier is next.
ResolveBegin ==
    /\ Idle
    /\ \E r \in Requests :
        /\ Reaches(r, "getBoundariesContainingHandler")
        /\ r.query.lat.kind = "num" /\ r.query.lon.kind = "num"
        /\ req' = r
        /\ invoked' = "getBoundariesContainingHandler"
        /\ call' = [NoCall EXCEPT !.pc = "running", !.tier = 1]
        /\ UNCHANGED <<serviceSecret, store, resp, reads, previousBulk>>

\* The client goes away while the handler runs: the request's context is
\* cancelled. The handler holds context.Background() (line 2756), which is not.
CancelContext ==
    /\ call.pc = "running" /\ ~call.cancelled
    /\ call' = [call EXCEPT !.cancelled = TRUE]
    /\ UNCHANGED <<serviceSecret, store, req, resp, invoked, reads, previousBulk>>

\* findContainingEntities, lines 1387-1395: the handler, at a tier and with no
\* query outstanding, issues the tier's query with ctx.
IssueTierQuery ==
    /\ call.pc = "running" /\ call.inflight = {} /\ call.tier <= Len(Tiers)
    /\ \E ok \in BOOLEAN :
        /\ ~ok => Len(SelectSeq(reads, LAMBDA rd : ~rd.ok)) < MaxFailures
        /\ reads' = Append(reads, [collection |-> Tiers[call.tier].collection, ok |-> ok])
    /\ call' = [call EXCEPT !.inflight = {Tiers[call.tier].collection}]
    /\ UNCHANGED <<serviceSecret, store, req, resp, invoked, previousBulk>>

\* Lines 1395-1421 and the handler's use of the result, lines 2775-2804: the
\* query returns, the tier's group is appended when it has entities, and the
\* next tier follows.
AwaitTierQuery ==
    /\ call.pc = "running" /\ call.inflight # {}
    /\ LET tier == Tiers[call.tier]
           found == findContainingEntities(tier.collection, req.query.lat.val, req.query.lon.val,
                                           {rd.collection : rd \in {x \in Range(reads) : ~x.ok}})
       IN  call' = [call EXCEPT !.inflight = {}, !.tier = @ + 1,
                                !.boundaries = IF Len(found) > 0
                                               THEN Append(@, [type |-> tier.type, entities |-> found])
                                               ELSE @]
    /\ UNCHANGED <<serviceSecret, store, req, resp, invoked, reads, previousBulk>>

\* Lines 2806-2814: the response is encoded after the fourth tier.
WriteResponse ==
    /\ call.pc = "running" /\ call.inflight = {} /\ call.tier > Len(Tiers)
    /\ resp' = Json([kind |-> "containing", lat |-> req.query.lat.val, lon |-> req.query.lon.val,
                     boundaries |-> call.boundaries, count |-> Len(call.boundaries)])
    /\ call' = [call EXCEPT !.pc = "done"]
    /\ UNCHANGED <<serviceSecret, store, req, invoked, reads, previousBulk>>

\* http.ListenAndServe, line 2011: the response is on the wire; the server waits
\* for the next request. Nothing of the request outlives it in the program;
\* previousBulk is the observer's record of what the last answered
\* /countries/bulk call listed.
Finish ==
    /\ req # NoRequest
    /\ call.pc # "running"
    /\ call' = NoCall
    /\ req' = NoRequest
    /\ resp' = NoResponse
    /\ invoked' = "none"
    /\ reads' = <<>>
    /\ previousBulk' = IF invoked = "getBulkCountriesHandler" /\ resp.status = 200
                       THEN [seen |-> TRUE,
                             ids |-> [i \in 1..Len(resp.body.countries) |-> resp.body.countries[i].id]]
                       ELSE previousBulk
    /\ UNCHANGED <<serviceSecret, store>>

Init ==
    /\ serviceSecret \in Secrets
    /\ store \in Worlds
    /\ req = NoRequest
    /\ resp = NoResponse
    /\ invoked = "none"
    /\ reads = <<>>
    /\ previousBulk = [seen |-> FALSE, ids |-> <<>>]
    /\ call = NoCall

Next ==
    \/ NotFound
    \/ MethodNotAllowed
    \/ Preflight
    \/ Unauthorized
    \/ healthHandler
    \/ metricsHandler
    \/ getBoundariesContainingHandler
    \/ batchLookupBoundariesHandler
    \/ classifyPointHandler
    \/ distanceToCoastHandler
    \/ batchClassifyHandler
    \/ getAchievementDefinitionsHandler
    \/ getCountryHandler
    \/ getBulkCountriesHandler
    \/ getCountryPolygonHandler
    \/ getContinentPolygonsHandler
    \/ getWorldPolygonsHandler
    \/ getLandmarkHandler
    \/ createCountryHandler
    \/ createLandmarkHandler
    \/ createBoundaryHandler
    \/ Finish

Spec == Init /\ [][Next]_vars

\* The handlers the router cannot reach, each called with a request as a test of
\* the handler calls it.
HandlerNext ==
    \/ getLandmarksNearbyHandler
    \/ Finish

HandlerSpec == Init /\ [][HandlerNext]_vars

\* The resolver's handler followed statement by statement, with the client free
\* to go away at any moment.
ResolveNext ==
    \/ ResolveBegin
    \/ CancelContext
    \/ IssueTierQuery
    \/ AwaitTierQuery
    \/ WriteResponse
    \/ Finish

ResolveSpec == Init /\ [][ResolveNext]_vars

\* ---------------------------------------------------------------- properties

\* A request has been served and its response is on the wire.
Served == req # NoRequest

\* The route of the request is wrapped in requireServiceAuth.
GatedRoute(r) == RouteOf(r) # NoRoute /\ Routes[RouteOf(r)].gated

\* Some registered route with this path is wrapped in requireServiceAuth.
GatedPath(path) ==
    \E i \in 1..Len(Routes) : PatternMatches(Routes[i].pattern, path) /\ Routes[i].gated

\* C1: with a secret configured, a request other than OPTIONS to a gated route
\* has its handler invoked only if X-Service-Auth equals the secret byte for
\* byte; with the header missing or different, in its last byte too, the
\* answer is 401, no handler is invoked and the store is not read.
C1_AuthGate ==
    (Served /\ serviceSecret # <<>> /\ req.method # "OPTIONS" /\ GatedRoute(req))
        => /\ invoked # "none" => req.auth = serviceSecret
           /\ req.auth # serviceSecret
                => resp.status = 401 /\ invoked = "none" /\ reads = <<>>

\* A header that differs from the secret in its last byte only was refused.
C1_Witness ==
    /\ Served /\ serviceSecret # <<>> /\ req.method = "GET" /\ GatedRoute(req)
    /\ req.auth = LastByteOff /\ req.auth # serviceSecret
    /\ resp.status = 401 /\ invoked = "none"

\* C2: an OPTIONS request without X-Service-Auth to any gated path is answered
\* 200 with the CORS headers, whether or not a secret is configured, and no
\* business handler is invoked.
C2_PreflightBypass ==
    (Served /\ req.method = "OPTIONS" /\ req.auth = <<>> /\ GatedPath(req.path))
        => resp.status = 200 /\ resp.cors /\ invoked = "none" /\ reads = <<>>

\* A preflight without the header was answered 200 while a secret is configured.
C2_Witness ==
    /\ Served /\ req.method = "OPTIONS" /\ req.auth = <<>> /\ GatedPath(req.path)
    /\ serviceSecret # <<>> /\ resp.status = 200 /\ resp.cors

ContainingServed ==
    /\ Served /\ invoked = "getBoundariesContainingHandler"
    /\ req.query.lat.kind = "num" /\ req.query.lon.kind = "num"

\* The collections whose read failed while the request was served.
FailedReads == {reads[i].collection : i \in {j \in 1..Len(reads) : ~reads[j].ok}}

\* The vertices of a geometry: none when it is empty or unparsable.
VerticesOf(g) ==
    IF g.type \in {"", "garbage"} THEN {}
    ELSE UNION {UNION {Range(g.polys[a][b]) : b \in 1..Len(g.polys[a])} : a \in 1..Len(g.polys)}

\* The bounds of a document contain every vertex of its geometry.
BoundsCoverGeometry(d) ==
    \A v \in VerticesOf(d.geometry) :
        /\ d.bounds.min_lat <= v[2] /\ v[2] <= d.bounds.max_lat
        /\ d.bounds.min_lon <= v[1] /\ v[1] <= d.bounds.max_lon

\* The brute-force answer: every active document of the tier whose geometry
\* contains the point, bounds not consulted.
BruteForce(collection, lat, lon) ==
    SelectSeq(store[collection],
              LAMBDA d : d.is_active /\ d.geometry.type # "" /\ isPointInGeometry(lat, lon, d.geometry))

\* The entities the response lists for a tier: none when it has no group.
GroupOf(type) ==
    LET gs == SelectSeq(resp.body.boundaries, LAMBDA g : g.type = type)
    IN  IF gs = <<>> THEN <<>> ELSE gs[1].entities

\* C4: for every tier whose documents all have bounds that contain their
\* geometry's vertices, and whose query succeeded, the entities the resolver
\* returned are exactly the active documents whose geometry contains the point.
C4_TwoStageEquivalence ==
    ContainingServed =>
        \A i \in 1..Len(Tiers) :
            (/\ Tiers[i].collection \notin FailedReads
             /\ \A k \in 1..Len(store[Tiers[i].collection]) :
                    BoundsCoverGeometry(store[Tiers[i].collection][k]))
                => GroupOf(Tiers[i].type)
                     = BruteForce(Tiers[i].collection, req.query.lat.val, req.query.lon.val)

\* The resolver returned a match, from a tier where stage 1 also let through an
\* active document that stage 2 rejected.
C4_Witness ==
    /\ ContainingServed /\ FailedReads = {}
    /\ \E i \in 1..Len(Tiers) :
        LET docs == store[Tiers[i].collection]
        IN  /\ \A k \in 1..Len(docs) : BoundsCoverGeometry(docs[k])
            /\ GroupOf(Tiers[i].type) # <<>>
            /\ \E k \in 1..Len(docs) :
                /\ docs[k].is_active
                /\ InBounds(docs[k], req.query.lat.val, req.query.lon.val)
                /\ ~isPointInGeometry(req.query.lat.val, req.query.lon.val, docs[k].geometry)

\* The position of a tier's type in the order sovereign_state, country,
\* map_unit, map_subunit.
TierRank(type) ==
    CASE type = "sovereign_state" -> 1
      [] type = "country" -> 2
      [] type = "map_unit" -> 3
      [] type = "map_subunit" -> 4
      [] OTHER -> 0

\* The matches of a tier: what the resolver returns for it during this request.
Matches(i) ==
    findContainingEntities(Tiers[i].collection, req.query.lat.val, req.query.lon.val, FailedReads)

CoordinateServed ==
    /\ Served
    /\ invoked \in {"getBoundariesContainingHandler", "classifyPointHandler", "distanceToCoastHandler"}
    /\ req.query.lat.kind = "num" /\ req.query.lon.kind = "num"

\* C6 as the specification states it: every coordinate endpoint refuses a latitude
\* outside [-90, 90] or a longitude outside [-180, 180] with 400 and without
\* reading the store, and does not refuse the corners of the range.
C6_RangeValidated ==
    CoordinateServed =>
        IF \/ req.query.lat.val < Deg(-90) \/ req.query.lat.val > Deg(90)
           \/ req.query.lon.val < Deg(-180) \/ req.query.lon.val > Deg(180)
        THEN resp.status = 400 /\ reads = <<>>
        ELSE resp.status # 400

\* C7 as the specification states it: a store read that fails while a request is
\* served is answered with a 5xx status.
C7_StoreFailurePropagated ==
    (Served /\ FailedReads # {}) => resp.status >= 500

\* POST /boundaries/batch-lookup reached its handler with a body that parses.
BatchLookupServed ==
    Served /\ invoked = "batchLookupBoundariesHandler" /\ req.body.valid

\* C8: the results of batch-lookup have the length of points, and results[i]
\* carries the square_id of points[i].
C8_BatchLookupAligned ==
    BatchLookupServed =>
        /\ resp.status = 200
        /\ Len(resp.body.results) = Len(req.body.points)
        /\ \A i \in 1..Len(req.body.points) :
                resp.body.results[i].square_id = req.body.points[i].square_id

\* Two points with different square ids, the second one with no boundary.
C8_Witness ==
    /\ BatchLookupServed /\ Len(req.body.points) = 2
    /\ req.body.points[1].square_id # req.body.points[2].square_id
    /\ resp.body.results[2].square_id = req.body.points[2].square_id
    /\ resp.body.results[1].boundary_tags # <<>>
    /\ resp.body.results[2].boundary_tags = <<>>

\* The lower-cased names of the entities the spatial resolver finds for a point,
\* tier by tier in tier order.
RECURSIVE ResolverTags(_, _, _)
ResolverTags(lat, lon, i) ==
    IF i > Len(Tiers) THEN <<>>
    ELSE LET found == findContainingEntities(Tiers[i].collection, lat, lon, {})
         IN  [k \in 1..Len(found) |-> ToLower(found[k].name)] \o ResolverTags(lat, lon, i + 1)

\* C9 as the specification states it: the boundary_tags of each batch-lookup
\* result are the lower-cased names of what the spatial resolver returns for the
\* point, in tier order.
C9_TagsFromResolver ==
    BatchLookupServed =>
        \A i \in 1..Len(req.body.points) :
            resp.body.results[i].boundary_tags
                = ResolverTags(req.body.points[i].lat, req.body.points[i].lon, 1)

\* POST /coastline/batch-classify reached its handler with a body that parses.
BatchClassifyServed ==
    Served /\ invoked = "batchClassifyHandler" /\ req.body.valid

\* C10: a batch-classify body of exactly 1000 points is accepted and every point
\* gets a result; a body of 1001 points or more is refused with 400, nothing is
\* classified and the store is not read.
C10_BatchCap ==
    BatchClassifyServed =>
        /\ Len(req.body.points) = 1000
            => /\ resp.status = 200
               /\ resp.body.count = 1000 /\ Len(resp.body.results) = 1000
               /\ Len(reads) = 2 * 1000
        /\ Len(req.body.points) >= 1001
            => resp.status = 400 /\ resp.body.kind = "error" /\ reads = <<>>

\* A body of exactly 1000 points was classified, the store being available.
C10_Witness ==
    /\ BatchClassifyServed /\ Len(req.body.points) = 1000 /\ FailedReads = {}
    /\ resp.status = 200 /\ Len(resp.body.results) = 1000
    /\ \A i \in 1..1000 : resp.body.results[i].error = ""

\* C11 as the specification states it: a batch request is answered 200 only with
\* a result for every point and no error entry among the results; a point out
\* of range, or one whose classification failed, fails the whole request.
C11_BatchAllOrNothing ==
    /\ (BatchClassifyServed /\ resp.status = 200)
            => /\ Len(resp.body.results) = Len(req.body.points)
               /\ \A i \in 1..Len(resp.body.results) : resp.body.results[i].error = ""
    /\ (BatchLookupServed /\ resp.status = 200)
            => Len(resp.body.results) = Len(req.body.points)

\* GET /coastline/classify answered 200 for a point in range.
ClassifyServed ==
    Served /\ invoked = "classifyPointHandler" /\ resp.status = 200

\* Some active land polygon's geometry contains the point.
OnLandByGeometry(lat, lon) ==
    \E k \in 1..Len(store["land_polygons"]) :
        /\ store["land_polygons"][k].is_active
        /\ isPointInGeometry(lat, lon, store["land_polygons"][k].geometry)

\* C12 as the specification states it: when the land polygons could be read, the
\* classifier reports land if and only if the geometry of at least one active
\* land polygon contains the point; inside a polygon's bounds but outside its
\* geometry is not land.
C12_LandTestByGeometry ==
    (ClassifyServed /\ "land_polygons" \notin FailedReads)
        => (resp.body.type = "land"
                <=> OnLandByGeometry(req.query.lat.val, req.query.lon.val))

\* The grid the specification's table gives for a classification.
GridOfTable(isLand, distance) ==
    CASE isLand -> "1x1km"
      [] ~isLand /\ distance > Km(1000) -> "100x100km"
      [] ~isLand /\ distance <= Km(1000) -> "10x10km"

\* Distances around the 1000 km threshold, and the two ends.
ThresholdDistances == {0, 1, Km(1000) - 1, Km(1000), Km(1000) + 1, Km(20000)}

\* C13: the grid_resolution of every classification is 1x1km on land whatever
\* the distance, 100x100km in the ocean more than 1000 km from the coast, and
\* 10x10km in the ocean at most 1000 km from it (exactly 1000 km included); the
\* type reported is land exactly when is_land is true, otherwise ocean.
C13_ResolutionMapping ==
    /\ \A l \in BOOLEAN, d \in ThresholdDistances :
            determineGridResolution(l, d) = GridOfTable(l, d)
    /\ ClassifyServed =>
        LET c == classifyPoint(req.query.lat.val, req.query.lon.val, FailedReads)
        IN  /\ resp.body.type = (IF c.isLand THEN "land" ELSE "ocean")
            /\ resp.body.type \in {"land", "ocean"}
            /\ resp.body.grid_resolution
                    = GridOfTable(resp.body.type = "land", resp.body.distance_to_coast)
    /\ (BatchClassifyServed /\ resp.status = 200) =>
        \A i \in 1..Len(resp.body.results) :
            LET e == resp.body.results[i]
            IN  e.error = "" => /\ e.type \in {"land", "ocean"}
                                /\ e.grid_resolution = GridOfTable(e.type = "land", e.distance_to_coast)

\* An ocean point more than 1000 km from the nearest coast was given the coarse
\* grid.
C13_Witness ==
    /\ ClassifyServed /\ resp.body.type = "ocean"
    /\ resp.body.distance_to_coast > Km(1000)
    /\ resp.body.grid_resolution = "100x100km"

\* No active coastline's bounds, widened by 2 degrees, enclose the point.
NoCoastCandidate(lat, lon) ==
    ~\E k \in 1..Len(store["coastlines"]) :
        /\ store["coastlines"][k].is_active
        /\ CoastCandidate(store["coastlines"][k], lat, lon)

\* One of the two single-point coast endpoints ran its computation: the handler
\* was reached with two numbers, in range where the handler checks the range.
CoastServed ==
    /\ Served /\ invoked \in {"classifyPointHandler", "distanceToCoastHandler"}
    /\ req.query.lat.kind = "num" /\ req.query.lon.kind = "num"
    /\ ~CoordinatesOutOfRange(req.query.lat.val, req.query.lon.val)

\* C14 as the specification states it: when no coastline segment is a candidate
\* for the point, /coastline/distance and /coastline/classify both answer 500;
\* neither answers 200 with a distance.
C14_NoCoastDataIs500 ==
    (CoastServed /\ NoCoastCandidate(req.query.lat.val, req.query.lon.val))
        => resp.status = 500

\* GET /countries/bulk was answered 200.
BulkServed ==
    Served /\ invoked = "getBulkCountriesHandler" /\ resp.status = 200

\* The active documents of a collection, straight from the store.
Active(collection) == SelectSeq(store[collection], LAMBDA d : d.is_active)

IdsOf(docs) == [i \in 1..Len(docs) |-> docs[i].id]

\* No two documents of the collection share an id.
UniqueIds(collection) ==
    \A a, b \in 1..Len(store[collection]) :
        a # b => store[collection][a].id # store[collection][b].id

SovereignNames(id) ==
    {d.name : d \in {s \in Range(store["sovereign_states"]) : s.is_active /\ s.id = id}}

WithPolygon == SelectSeq(store["countries"], LAMBDA d : d.is_active /\ d.geometry.type # "")

\* One of the three polygon endpoints reached its handler.
PolygonServed ==
    /\ Served
    /\ invoked \in {"getCountryPolygonHandler", "getContinentPolygonsHandler", "getWorldPolygonsHandler"}

\* C18: the polygon endpoints read the countries collection only, and return a
\* polygon for a country if and only if it is active, has a non-empty geometry
\* and is the country, or of the continent, asked for: /polygons/world lists
\* each such id once and count is the number of polygons; /polygons/country/{id}
\* answers 404 when the country is missing, inactive or without geometry.
C18_PolygonsFromCountries ==
    (PolygonServed /\ UniqueIds("countries")) =>
        /\ \A i \in 1..Len(reads) : reads[i].collection = "countries"
        /\ (invoked = "getWorldPolygonsHandler" /\ resp.status = 200)
            => /\ IdsOf(resp.body.polygons) = IdsOf(WithPolygon)
               /\ resp.body.count = Len(resp.body.polygons)
               /\ \A a, b \in 1..Len(resp.body.polygons) :
                        a # b => resp.body.polygons[a].id # resp.body.polygons[b].id
               /\ \A a \in 1..Len(resp.body.polygons) : resp.body.polygons[a].geometry.type # ""
        /\ (invoked = "getContinentPolygonsHandler" /\ resp.status = 200)
            => /\ IdsOf(resp.body.polygons)
                    = IdsOf(SelectSeq(WithPolygon, LAMBDA d : d.continent = req.path[3]))
               /\ resp.body.count = Len(resp.body.polygons)
        /\ invoked = "getCountryPolygonHandler"
            => IF req.path[3] \in Range(IdsOf(WithPolygon))
               THEN FailedReads = {} => resp.status = 200 /\ resp.body.polygon.id = req.path[3]
               ELSE resp.status = 404

\* /polygons/world listed three polygons from a collection of three active
\* countries and an inactive one.
C18_Witness ==
    /\ Served /\ invoked = "getWorldPolygonsHandler" /\ resp.status = 200
    /\ resp.body.count = 3 /\ Len(store["countries"]) = 4
    /\ \E k \in 1..Len(store["countries"]) : ~store["countries"][k].is_active

\* C19 as the specification states it: a request that reaches a handler reaches
\* the handler of the route registered for exactly its path and method: GET
\* /landmarks/nearby the nearby search and not the detail of the landmark
\* "nearby", and likewise /countries/bulk, /boundaries/containing and POST
\* /boundaries/batch-lookup.
C19_OwnRouteReached ==
    (Served /\ invoked # "none") =>
        \A i \in 1..Len(Routes) :
            (Routes[i].pattern = req.path /\ req.method \in Routes[i].methods)
                => invoked = Routes[i].handler

\* The nearby search ran with a point it could parse and answered.
NearbyServed ==
    /\ Served /\ invoked = "getLandmarksNearbyHandler"
    /\ req.query.lat.kind = "num" /\ req.query.lon.kind = "num"

\* C20 as the specification states it: a nearby search with radius=0 answers an
\* empty list, count 0, whatever the store holds and wherever the point is, an
\* active landmark exactly at the point included.
C20_ZeroRadiusEmpty ==
    (NearbyServed /\ req.query.radius = Num(0) /\ FailedReads = {})
        => resp.status = 200 /\ resp.body.landmarks = <<>> /\ resp.body.count = 0

\* An admin handler answered.
AdminHandlers == {"createCountryHandler", "createLandmarkHandler", "createBoundaryHandler"}

\* C21: the service never writes. No step of any sequence of requests, the
\* authenticated POSTs to /countries, /landmarks and /boundaries (answered 501)
\* included, changes the contents of a store collection.
C21_NeverWrites == [][store' = store]_vars

\* An authenticated POST to an admin endpoint was answered 501 on a store that
\* holds documents.
C21_Witness ==
    /\ Served /\ invoked \in AdminHandlers
    /\ req.method = "POST" /\ resp.status = 501
    /\ store # EmptyStore

\* C22 as the specification states it: once the request's context is cancelled
\* while the handler runs, the outstanding store call is aborted (it returns
\* nothing to the handler), no further store read is issued for the request, and
\* no body is written.
C22_CancelAborts ==
    [][(call.pc = "running" /\ call.cancelled)
          => /\ Len(reads') <= Len(reads)
             /\ Len(call'.boundaries) <= Len(call.boundaries)
             /\ resp' = NoResponse]_vars

\* The handler does not wait for the result of one tier's query before the
\* queries of the other tiers have been issued.
FannedOut == (call.pc = "running" /\ call.tier > 1) => Len(reads) = Len(Tiers)

\* The response is written from the results of all four tiers.
Joined == (call.pc = "done") => (call.tier = Len(Tiers) + 1 /\ call.inflight = {})

\* The groups of the response are those of the tiers, in tier order.
InTierOrder ==
    (call.pc = "done") =>
        resp.body.boundaries
            = BoundaryGroups(req.query.lat.val, req.query.lon.val,
                             {rd.collection : rd \in {x \in Range(reads) : ~x.ok}}, 1)

\* C27 as the specification states it: within one resolve request the four tier
\* queries run concurrently (all four are issued before the handler waits for
\* any of them), the response is written only after all four have completed, and
\* its content and tier order do not depend on the order of completion.
C27_TiersConcurrent == FannedOut /\ Joined /\ InTierOrder

\* Some route is registered for the path.
Endpoint(path) == \E i \in 1..Len(Routes) : PatternMatches(Routes[i].pattern, path)

\* C23 as the specification states it: every endpoint, /health and /metrics
\* included, answers an OPTIONS request 200 with the CORS headers, whatever the
\* X-Service-Auth header.
C23_OptionsEverywhere ==
    (Served /\ req.method = "OPTIONS" /\ Endpoint(req.path))
        => resp.status = 200 /\ resp.cors

\* C24 as the specification states it: every entity record that
\* /boundaries/containing returns has its stored geometry string removed (no
\* request of the inputs asks for geometry).
C24_GeometryStripped ==
    (ContainingServed /\ resp.status = 200) =>
        \A i \in 1..Len(resp.body.boundaries) :
            \A k \in 1..Len(resp.body.boundaries[i].entities) :
                resp.body.boundaries[i].entities[k].geometry = NoGeometry

\* Distances around the fallback's threshold, in metres.
FallbackDistances == {0, Km(1) - 1, Km(1), Km(1) + 1, Km(10)}

\* The classifier ran for a point in range while the land_polygons read failed.
FallbackServed ==
    /\ Served /\ invoked = "classifyPointHandler"
    /\ ParseLatLon(req.query) = ""
    /\ ~CoordinatesOutOfRange(req.query.lat.val, req.query.lon.val)
    /\ "land_polygons" \in FailedReads

UsableGeometry(d) == d.geometry.type \in {"Polygon", "MultiPolygon"}

\* The candidates of a tier: its active documents whose bounds hold the point.
Candidates(collection, lat, lon) ==
    SelectSeq(store[collection], LAMBDA d : d.is_active /\ InBounds(d, lat, lon))

LandmarkDocs(id) == {d \in Range(store["landmarks"]) : d.id = id}

LacksSecret == serviceSecret # <<>> /\ req.auth # serviceSecret

\* C30: authentication precedes every store access. A request to a gated route
\* that lacks the configured secret, or is answered 401, and every OPTIONS
\* request, is handled without a single store read.
C30_NoReadBeforeAuth ==
    Served =>
        /\ (GatedRoute(req) /\ (LacksSecret \/ resp.status = 401)) => reads = <<>>
        /\ req.method = "OPTIONS" => reads = <<>>

\* A GET to a store-reading gated route carried a wrong secret and was answered
\* 401 without a store read.
C30_Witness ==
    /\ Served /\ req.method = "GET" /\ req.path = <<"boundaries", "containing">>
    /\ LacksSecret /\ req.auth # <<>>
    /\ resp.status = 401 /\ reads = <<>>

====
